---- MODULE Spec2Model ----
(***************************************************************************)
(* League aggregation pipeline of footy_world: process_football_data of    *)
(* data_loader.py turns a table of per-player rows into a league table and *)
(* a player table.                                                         *)
(*                                                                         *)
(* A data frame is a record [columns, rows]; a row is a function from the  *)
(* frame's columns to cell values.  Numbers derived by the pipeline are    *)
(* exact fractions <<n, d>>: d > 0 is a finite number in lowest terms,     *)
(* <<0, 0>> is NaN (a missing cell) and <<1, 0>>, <<-1, 0>> are the        *)
(* infinities numpy's float division produces.                             *)
(***************************************************************************)
EXTENDS Integers, Sequences, FiniteSets, TLC

\* ------------------------------------------------------------------ bounds

\* cell values of the "ramp" rows range over 0..MaxCell
MaxCell == 3
\* the largest league of the generated inputs
MaxRows == 12
\* rows of a league are spread over 1..MaxSquads squads
MaxSquads == 2

\* ------------------------------------------------------------- arithmetic

Abs(x) == IF x < 0 THEN 0 - x ELSE x

RECURSIVE Gcd(_, _)
Gcd(a, b) == IF b = 0 THEN a ELSE Gcd(b, a % b)

Sign(x) == IF x > 0 THEN 1 ELSE IF x < 0 THEN 0 - 1 ELSE 0

\* the fraction n/d in lowest terms; a zero denominator gives inf or NaN
Q(n, d) ==
    IF d = 0 THEN <<Sign(n), 0>>
    ELSE LET g == Gcd(Abs(n), Abs(d))
             s == Sign(d)
         IN  <<(s * n) \div g, (s * d) \div g>>

N(i) == <<i, 1>>
NaN == <<0, 0>>
Inf == <<1, 0>>
IsNaN(x) == x = NaN
IsFinite(x) == x[2] # 0

Mul(x, y) == Q(x[1] * y[1], x[2] * y[2])
Add(x, y) ==
    IF IsFinite(x) /\ IsFinite(y) THEN Q(x[1] * y[2] + y[1] * x[2], x[2] * y[2])
    ELSE IF IsNaN(x) \/ IsNaN(y) \/ (x[1] # y[1] /\ ~IsFinite(x) /\ ~IsFinite(y)) THEN NaN
    ELSE IF IsFinite(x) THEN y ELSE x
Neg(x) == <<0 - x[1], x[2]>>
Sub(x, y) == Add(x, Neg(y))
\* numpy float division: x/0 is inf (NaN for 0/0), no exception
Div(x, y) ==
    IF IsNaN(x) \/ IsNaN(y) THEN NaN
    ELSE IF ~IsFinite(x) /\ ~IsFinite(y) THEN NaN
    ELSE IF ~IsFinite(y) THEN N(0)
    ELSE Q(x[1] * y[2] * Sign(IF y[1] = 0 THEN 1 ELSE y[1]), x[2] * Abs(y[1]))
Gt(x, y) == IsFinite(x) /\ IsFinite(y) /\ x[1] * y[2] > y[1] * x[2]
Min2(x, y) == IF Gt(x, y) THEN y ELSE x

\* ---------------------------------------------------------------- columns

required_cols == {"Player", "Competition", "Squad"}

ShootingCols == {"Standard Sh", "Standard SoT", "Expected xG", "Performance Gls",
                 "Performance G-PK", "Expected npxG", "Performance PK", "Standard PKatt"}
TimeCols == {"Playing Time 90s"}
gca_types == <<"GCA Types PassLive", "GCA Types PassDead", "GCA Types TO",
               "GCA Types Sh", "GCA Types Fld", "GCA Types Def">>
sca_types == <<"SCA Types PassLive", "SCA Types PassDead", "SCA Types TO",
               "SCA Types Sh", "SCA Types Fld", "SCA Types Def">>
Range(s) == {s[i] : i \in DOMAIN s}
CreationCols == {"GCA GCA", "SCA SCA"} \cup Range(gca_types) \cup Range(sca_types)
tackle_zones == <<"Tackles Def 3rd", "Tackles Mid 3rd", "Tackles Att 3rd">>
DefenseCols == {"Tackles Tkl", "Tackles TklW", "Int", "Blocks Blocks", "Blocks Sh",
                "Blocks Pass", "Clr", "Err", "Aerial Duels Won", "Aerial Duels Lost",
                "Pressure Succ%", "Pressure Press", "Performance Recov"}
                   \cup Range(tackle_zones)
touch_zones == <<"Touches Def 3rd", "Touches Mid 3rd", "Touches Att 3rd",
                 "Touches Att Pen", "Touches Def Pen">>
PossessionCols == {"Touches Touches", "Carries PrgC", "Carries Carries", "Carries 1/3",
                   "Carries CPA", "Receiving PrgR", "Carries Mis", "Carries Dis",
                   "Take-Ons Succ", "Take-Ons Att"} \cup Range(touch_zones)
PassingCols == {"Short Cmp", "Short Att", "Medium Cmp", "Medium Att", "Long Cmp",
                "Long Att", "Total Cmp%", "Total Att", "Total TotDist", "PrgP",
                "Total PrgDist", "KP", "Expected xA", "Ast", "xAG", "PPA"}
corner_types == <<"Corner Kicks In", "Corner Kicks Out", "Corner Kicks Str">>
CornerCols == {"Pass Types CK"} \cup Range(corner_types)
ImpactCols == {"Team Success +/-", "Team Success +/-90", "Team Success On-Off",
               "Team Success (xG) xG+/-", "Team Success (xG) xG+/-90",
               "Team Success (xG) On-Off", "Team Success PPM",
               "Expected G-xG", "Expected A-xAG"}

\* every column process_football_data reads to derive a league metric
SourceCols == ShootingCols \cup TimeCols \cup CreationCols \cup DefenseCols
                 \cup PossessionCols \cup PassingCols \cup CornerCols \cup ImpactCols

player_cols == <<"Player", "Squad", "Competition", "Pos">>

metric_cols == <<
    "Performance Gls", "Performance Ast", "Performance G+A", "Performance G-PK",
    "Standard Sh", "Standard SoT", "Standard SoT%", "Expected xG", "Expected G-xG",
    "GCA GCA", "GCA GCA90", "Expected xA", "Expected npxG",
    "Touches Touches", "Touches Att Pen", "Touches Att 3rd", "Touches Mid 3rd",
    "Touches Def 3rd", "Carries Carries", "Carries PrgC", "Carries 1/3", "Carries CPA",
    "Receives PrgR", "Take-Ons Att", "Take-Ons Succ", "Take-Ons Succ%",
    "Total Att", "Total Cmp", "Total Cmp%", "PrgP", "KP", "Ast", "xAG",
    "Short Cmp%", "Medium Cmp%", "Long Cmp%", "SCA SCA", "SCA SCA90",
    "Tackles Tkl", "Tackles TklW", "Int", "Blocks Blocks", "Clr",
    "Aerial Duels Won", "Aerial Duels Won%", "Performance Recov",
    "Pass Types CK", "Corner Kicks In", "Corner Kicks Out", "Corner Kicks Str",
    "Playing Time 90s", "Playing Time Min">>

\* a column of the provider's table that the pipeline never names
OtherCols == {"Age"}

AllCols == required_cols \cup Range(player_cols) \cup SourceCols
              \cup Range(metric_cols) \cup OtherCols

\* the numeric columns
NumericCols == AllCols \ Range(player_cols)

\* ----------------------------------------------------------------- inputs

\* the hard-coded minimum number of rows of a league (data_loader.py:67)
MinLeagueRows == 10
\* a league record needs more than this many entries (data_loader.py:590)
MinEntries == 5

None == [none |-> TRUE]
Table(cols, rows) == [none |-> FALSE, columns |-> cols, rows |-> rows]

\* the numeric columns in the order process_football_data first names them
NumericColSeq == <<
    "Standard Sh", "Playing Time 90s", "Standard SoT", "Expected xG", "Performance Gls",
    "Performance G-PK", "Expected npxG", "Performance PK", "Standard PKatt", "GCA GCA",
    "GCA Types PassLive", "GCA Types PassDead", "GCA Types TO", "GCA Types Sh",
    "GCA Types Fld", "GCA Types Def", "Touches Att Pen", "Touches Touches", "Carries CPA",
    "PPA", "Tackles Tkl", "Tackles TklW", "Int", "Blocks Blocks", "Blocks Sh",
    "Blocks Pass", "Clr", "Err", "Tackles Def 3rd", "Tackles Mid 3rd", "Tackles Att 3rd",
    "Aerial Duels Won", "Aerial Duels Lost", "Pressure Succ%", "Pressure Press",
    "Performance Recov", "Touches Def 3rd", "Touches Mid 3rd", "Touches Att 3rd",
    "Touches Def Pen", "Carries PrgC", "Carries Carries", "Carries 1/3", "Receiving PrgR",
    "Carries Mis", "Carries Dis", "Take-Ons Succ", "Take-Ons Att", "Short Cmp",
    "Short Att", "Medium Cmp", "Medium Att", "Long Cmp", "Long Att", "Total Cmp%",
    "Total Att", "Total TotDist", "PrgP", "Total PrgDist", "KP", "Expected xA", "Ast",
    "xAG", "SCA SCA", "SCA Types PassLive", "SCA Types PassDead", "SCA Types TO",
    "SCA Types Sh", "SCA Types Fld", "SCA Types Def", "Pass Types CK", "Corner Kicks In",
    "Corner Kicks Out", "Corner Kicks Str", "Team Success +/-", "Team Success +/-90",
    "Team Success On-Off", "Team Success (xG) xG+/-", "Team Success (xG) xG+/-90",
    "Team Success (xG) On-Off", "Team Success PPM", "Expected G-xG", "Expected A-xAG",
    "Performance Ast", "Performance G+A", "Standard SoT%", "GCA GCA90", "Receives PrgR",
    "Take-Ons Succ%", "Total Cmp", "Short Cmp%", "Medium Cmp%", "Long Cmp%", "SCA SCA90",
    "Aerial Duels Won%", "Playing Time Min", "Age">>
\* a fixed numbering of the numeric columns, used to vary the generated cells
ColIndex == [c \in NumericCols |-> CHOOSE i \in DOMAIN NumericColSeq : NumericColSeq[i] = c]

Shapes == {"zero", "unit", "scenario", "ramp", "idle"}

\* the value of numeric column c in the i-th row of a league of the given shape
Cell(shape, i, c) ==
    CASE shape = "zero" -> 0
      [] shape = "unit" -> 1
      [] shape = "idle" -> IF c = "Playing Time 90s" THEN 0 ELSE 2
      [] shape = "scenario" ->
            IF c = "Standard Sh" THEN 10
            ELSE IF c = "Standard SoT" THEN 4
            ELSE IF c = "Playing Time 90s" THEN 1
            ELSE 2
      [] OTHER -> (ColIndex[c] * i) % (MaxCell + 1)

RawRow(cols, league, shape, squads, i) ==
    [c \in cols |->
        CASE c = "Player" -> i
          [] c = "Competition" -> league
          [] c = "Squad" -> <<league, (i % squads) + 1>>
          [] c = "Pos" -> "MF"
          [] OTHER -> Cell(shape, i, c)]

LeagueRows(cols, league, n, shape, squads) ==
    [i \in 1..n |-> RawRow(cols, league, shape, squads, i)]

RawTable(cols, na, sa, nb, sb, squads) ==
    Table(cols, LeagueRows(cols, "League A", na, sa, squads)
                   \o LeagueRows(cols, "League B", nb, sb, squads))

ColumnGroups == {ShootingCols, TimeCols, CreationCols, DefenseCols, PossessionCols,
                 PassingCols, CornerCols, ImpactCols}

ScenarioCols == {"Standard Sh", "Standard SoT", "Playing Time 90s"}

\* column sets: any union of the families, the full table less one column, and
\* the columns of the spec's scenario (with and without goals and xG)
WideColumnSets ==
    {Range(player_cols) \cup UNION G : G \in SUBSET ColumnGroups}
       \cup {AllCols \ {c} : c \in AllCols}
       \cup {AllCols \ S : S \in SUBSET required_cols}
       \cup {AllCols, required_cols, required_cols \cup ScenarioCols,
             Range(player_cols) \cup ScenarioCols \cup {"Performance Gls", "Expected xG"}}

FewColumnSets ==
    {AllCols, Range(player_cols) \cup SourceCols,
     Range(player_cols) \cup ScenarioCols,
     Range(player_cols) \cup ScenarioCols \cup {"Performance Gls", "Expected xG"}}

SizesA == (MinLeagueRows - 1)..MaxRows
SizesB == {0, 5, MinLeagueRows - 1, MinLeagueRows}

WideConfigs ==
    {<<na, sa, nb, sb, k>> : na \in SizesA, sa \in Shapes, nb \in SizesB,
                             sb \in Shapes, k \in 1..MaxSquads}
FewConfigs ==
    {<<MinLeagueRows, "ramp", 0, "zero", MaxSquads>>,
     <<MaxRows, "unit", MinLeagueRows, "zero", 1>>,
     <<MinLeagueRows, "idle", MinLeagueRows - 1, "unit", MaxSquads>>}

FromConfig(cols, cfg) == RawTable(cols, cfg[1], cfg[2], cfg[3], cfg[4], cfg[5])

Inputs ==
    {None}
       \cup {FromConfig(cols, cfg) : cols \in WideColumnSets, cfg \in FewConfigs}
       \cup {FromConfig(cols, cfg) : cols \in FewColumnSets, cfg \in WideConfigs}

\* ---------------------------------------------------- derivation helpers

\* league_df[c].sum() over the rows of one league
RECURSIVE Sum(_, _)
Sum(L, c) == IF L = <<>> THEN 0 ELSE L[Len(L)][c] + Sum(SubSeq(L, 1, Len(L) - 1), c)

\* a dict with no entries, one entry, and a list of updates applied in order
Empty == [k \in {} |-> NaN]
Put(k, v) == k :> v
RECURSIVE Upd(_)
Upd(updates) ==
    IF updates = <<>> THEN Empty
    ELSE updates[Len(updates)] @@ Upd(SubSeq(updates, 1, Len(updates) - 1))

Has(cols, needed) == needed \subseteq cols

\* max(1, league_df['Playing Time 90s'].sum())
Max1(x) == IF x > 1 THEN x ELSE 1
\* x / max(1, league_df['Playing Time 90s'].sum())
\* the rate without the max(1, ...) guard
Per90_NoGuard(x, L) == Q(x, Sum(L, "Playing Time 90s"))

Per90(x, L) == Q(x, Max1(Sum(L, "Playing Time 90s")))
\* the percentage without the factor 100
PctOrZero_NoScale(num, den) == IF den > 0 THEN Q(num, den) ELSE N(0)
\* 100 * num / den when den > 0, else 0
PctOrZero(num, den) == IF den > 0 THEN Q(100 * num, den) ELSE N(0)
\* num / den when den > 0, else 0
RatioOrZero(num, den) == IF den > 0 THEN Q(num, den) ELSE N(0)
\* the share left as a fraction of one
PctIfPositive_NoScale(k, num, den) == IF den > 0 THEN Put(k, Q(num, den)) ELSE Empty
\* "if den > 0: d[k] = 100 * num / den" with no else branch
PctIfPositive(k, num, den) == IF den > 0 THEN Put(k, Q(100 * num, den)) ELSE Empty
\* sum(actual) - sum(expected)
Differential(actual, expected) == Sub(N(actual), N(expected))

\* zone.replace('Tackles ', '') and the other name rewrites of the breakdowns
ShortName ==
    [c \in Range(gca_types) \cup Range(sca_types) \cup Range(tackle_zones)
           \cup Range(touch_zones) \cup Range(corner_types) |->
        CASE c = "GCA Types PassLive" -> "PassLive" [] c = "GCA Types PassDead" -> "PassDead"
          [] c = "GCA Types TO" -> "TO" [] c = "GCA Types Sh" -> "Sh"
          [] c = "GCA Types Fld" -> "Fld" [] c = "GCA Types Def" -> "Def"
          [] c = "SCA Types PassLive" -> "PassLive" [] c = "SCA Types PassDead" -> "PassDead"
          [] c = "SCA Types TO" -> "TO" [] c = "SCA Types Sh" -> "Sh"
          [] c = "SCA Types Fld" -> "Fld" [] c = "SCA Types Def" -> "Def"
          [] c = "Tackles Def 3rd" -> "Def 3rd" [] c = "Tackles Mid 3rd" -> "Mid 3rd"
          [] c = "Tackles Att 3rd" -> "Att 3rd"
          [] c = "Touches Def 3rd" -> "Def 3rd" [] c = "Touches Mid 3rd" -> "Mid 3rd"
          [] c = "Touches Att 3rd" -> "Att 3rd" [] c = "Touches Att Pen" -> "Att Pen"
          [] c = "Touches Def Pen" -> "Def Pen"
          [] c = "Corner Kicks In" -> "In" [] c = "Corner Kicks Out" -> "Out"
          [] c = "Corner Kicks Str" -> "Str"]

\* the f-strings naming the breakdown metrics
GcaName(c) == CASE ShortName[c] = "PassLive" -> "GCA PassLive %"
                [] ShortName[c] = "PassDead" -> "GCA PassDead %"
                [] ShortName[c] = "TO" -> "GCA TO %" [] ShortName[c] = "Sh" -> "GCA Sh %"
                [] ShortName[c] = "Fld" -> "GCA Fld %" [] ShortName[c] = "Def" -> "GCA Def %"
ScaName(c) == CASE ShortName[c] = "PassLive" -> "SCA PassLive %"
                [] ShortName[c] = "PassDead" -> "SCA PassDead %"
                [] ShortName[c] = "TO" -> "SCA TO %" [] ShortName[c] = "Sh" -> "SCA Sh %"
                [] ShortName[c] = "Fld" -> "SCA Fld %" [] ShortName[c] = "Def" -> "SCA Def %"
TackleZoneName(c) == CASE ShortName[c] = "Def 3rd" -> "Def 3rd Tackles %"
                       [] ShortName[c] = "Mid 3rd" -> "Mid 3rd Tackles %"
                       [] ShortName[c] = "Att 3rd" -> "Att 3rd Tackles %"
TouchZoneName(c) == CASE ShortName[c] = "Def 3rd" -> "Def 3rd Touch %"
                      [] ShortName[c] = "Mid 3rd" -> "Mid 3rd Touch %"
                      [] ShortName[c] = "Att 3rd" -> "Att 3rd Touch %"
                      [] ShortName[c] = "Att Pen" -> "Att Pen Touch %"
                      [] ShortName[c] = "Def Pen" -> "Def Pen Touch %"
CornerTypeName(c) == CASE ShortName[c] = "In" -> "In Corner %"
                       [] ShortName[c] = "Out" -> "Out Corner %"
                       [] ShortName[c] = "Str" -> "Str Corner %"

\* "for t in types: if t in df.columns: if total > 0: d[name(t)] = 100*sum(t)/total"
Breakdown(cols, L, types, total, name) ==
    Upd([i \in DOMAIN types |->
            IF types[i] \in cols /\ total > 0
            THEN Put(name[types[i]], Q(100 * Sum(L, types[i]), total))
            ELSE Empty])

\* ------------------------------------------------------ 1. attack metrics

AttackMetrics(cols, L) ==
    IF Has(cols, {"Standard Sh", "Playing Time 90s"})
    THEN LET total_shots == Sum(L, "Standard Sh") IN
         Upd(<<
           Put("Shots Per 90", Per90(total_shots, L)),
           IF "Standard SoT" \in cols
           THEN Put("Shot on Target %", PctOrZero(Sum(L, "Standard SoT"), total_shots))
           ELSE Empty,
           IF "Expected xG" \in cols
           THEN Put("xG Per Shot", RatioOrZero(Sum(L, "Expected xG"), total_shots))
           ELSE Empty,
           IF "Performance Gls" \in cols
           THEN Upd(<<Put("Goals Per Shot", RatioOrZero(Sum(L, "Performance Gls"), total_shots)),
                      Put("Conversion Rate", PctOrZero(Sum(L, "Performance Gls"), total_shots))>>)
           ELSE Empty,
           IF Has(cols, {"Performance Gls", "Standard SoT"})
           THEN Put("Goals per SoT",
                    RatioOrZero(Sum(L, "Performance Gls"), Sum(L, "Standard SoT")))
           ELSE Empty,
           IF Has(cols, {"Performance Gls", "Expected xG"})
           THEN Put("G-xG", Differential(Sum(L, "Performance Gls"), Sum(L, "Expected xG")))
           ELSE Empty,
           IF Has(cols, {"Performance G-PK", "Expected npxG"})
           THEN Upd(<<Put("Non-Penalty Goals", N(Sum(L, "Performance G-PK"))),
                      Put("Non-Penalty xG", N(Sum(L, "Expected npxG"))),
                      IF "Playing Time 90s" \in cols
                      THEN Put("Non-Penalty Goals Per 90", Per90(Sum(L, "Performance G-PK"), L))
                      ELSE Empty>>)
           ELSE Empty,
           IF Has(cols, {"Performance PK", "Standard PKatt"})
           THEN Put("Penalty Conversion %",
                    PctOrZero(Sum(L, "Performance PK"), Sum(L, "Standard PKatt")))
           ELSE Empty
         >>)
    ELSE Empty

GoalCreationMetrics(cols, L) ==
    IF Has(cols, {"GCA GCA", "Playing Time 90s"})
    THEN Upd(<<Put("GCA Per 90", Per90(Sum(L, "GCA GCA"), L)),
               Breakdown(cols, L, gca_types, Sum(L, "GCA GCA"), [c \in Range(gca_types) |-> GcaName(c)])>>)
    ELSE Empty

ThreatMetrics(cols, L) ==
    Upd(<<
      IF Has(cols, {"Touches Att Pen", "Touches Touches"})
      THEN PctIfPositive("Box Touches %", Sum(L, "Touches Att Pen"), Sum(L, "Touches Touches"))
      ELSE Empty,
      IF Has(cols, {"Carries CPA", "Playing Time 90s"})
      THEN Put("Carries into Box Per 90", Per90(Sum(L, "Carries CPA"), L))
      ELSE Empty,
      IF Has(cols, {"PPA", "Playing Time 90s"})
      THEN Put("Passes into Box Per 90", Per90(Sum(L, "PPA"), L))
      ELSE Empty
    >>)

\* --------------------------------------------------- 2. defensive metrics

\* the rows of L whose column c is > 0
Positive(L, c) == SelectSeq(L, LAMBDA r : r[c] > 0)

\* the mean over every player of the league, whatever the denominator
MeanOfAll(L, pct, att) == IF L # <<>> THEN Q(Sum(L, pct), Len(L)) ELSE N(0)

\* mean of the per-player percentage over the players with a nonzero denominator
MeanOfValid(L, pct, att) ==
    LET valid == Positive(L, att)
    IN  IF valid # <<>> THEN Q(Sum(valid, pct), Len(valid)) ELSE N(0)

\* the zone share without the factor 100
TackleZoneShare_NoScale(L, zone) ==
    Q(Sum(L, zone),
      Sum(L, "Tackles Def 3rd") + Sum(L, "Tackles Mid 3rd") + Sum(L, "Tackles Att 3rd"))

\* 100 * league_df[zone].sum() / league_df[tackle_zones].sum().sum()
TackleZoneShare(L, zone) ==
    Q(100 * Sum(L, zone),
      Sum(L, "Tackles Def 3rd") + Sum(L, "Tackles Mid 3rd") + Sum(L, "Tackles Att 3rd"))

DefensiveMetrics(cols, L) ==
    Upd(<<
      IF Has(cols, {"Tackles Tkl", "Playing Time 90s"})
      THEN Upd(<<Put("Tackles Per 90", Per90(Sum(L, "Tackles Tkl"), L)),
                 IF "Tackles TklW" \in cols
                 THEN Put("Tackle Success %",
                          PctOrZero(Sum(L, "Tackles TklW"), Sum(L, "Tackles Tkl")))
                 ELSE Empty>>)
      ELSE Empty,
      IF Has(cols, {"Int", "Playing Time 90s"})
      THEN Upd(<<Put("Interceptions Per 90", Per90(Sum(L, "Int"), L)),
                 IF "Tackles Tkl" \in cols
                 THEN Put("Tackles+Interceptions Per 90",
                          Per90(Sum(L, "Tackles Tkl") + Sum(L, "Int"), L))
                 ELSE Empty>>)
      ELSE Empty,
      IF Has(cols, {"Blocks Blocks", "Playing Time 90s"})
      THEN Upd(<<Put("Blocks Per 90", Per90(Sum(L, "Blocks Blocks"), L)),
                 IF Has(cols, {"Blocks Sh", "Blocks Pass"})
                 THEN Upd(<<PctIfPositive("Shot Blocks %", Sum(L, "Blocks Sh"),
                                          Sum(L, "Blocks Blocks")),
                            PctIfPositive("Pass Blocks %", Sum(L, "Blocks Pass"),
                                          Sum(L, "Blocks Blocks"))>>)
                 ELSE Empty>>)
      ELSE Empty,
      IF Has(cols, {"Clr", "Playing Time 90s"})
      THEN Put("Clearances Per 90", Per90(Sum(L, "Clr"), L)) ELSE Empty,
      IF Has(cols, {"Err", "Playing Time 90s"})
      THEN Put("Errors Per 90", Per90(Sum(L, "Err"), L)) ELSE Empty,
      IF Has(cols, Range(tackle_zones))
            /\ Sum(L, "Tackles Def 3rd") + Sum(L, "Tackles Mid 3rd")
                  + Sum(L, "Tackles Att 3rd") > 0
      THEN Upd([i \in DOMAIN tackle_zones |->
                  Put(TackleZoneName(tackle_zones[i]), TackleZoneShare(L, tackle_zones[i]))])
      ELSE Empty,
      IF Has(cols, {"Aerial Duels Won", "Aerial Duels Lost"})
      THEN PctIfPositive("Aerial Duels Won %", Sum(L, "Aerial Duels Won"),
                         Sum(L, "Aerial Duels Won") + Sum(L, "Aerial Duels Lost"))
      ELSE Empty,
      IF "Pressure Succ%" \in cols
      THEN Put("Pressure Success %", MeanOfValid(L, "Pressure Succ%", "Pressure Press"))
      ELSE Empty,
      IF Has(cols, {"Performance Recov", "Playing Time 90s"})
      THEN Put("Recoveries Per 90", Per90(Sum(L, "Performance Recov"), L)) ELSE Empty
    >>)

\* -------------------------------------------------- 3. possession metrics

TouchMetrics(cols, L) ==
    IF "Touches Touches" \in cols
    THEN Upd(<<
           IF "Playing Time 90s" \in cols
           THEN Put("Touches Per 90", Per90(Sum(L, "Touches Touches"), L)) ELSE Empty,
           Breakdown(cols, L, touch_zones, Sum(L, "Touches Touches"), [c \in Range(touch_zones) |-> TouchZoneName(c)]),
           Put("Possession %", N(50)),
           IF "Carries PrgC" \in cols
           THEN Upd(<<
                  IF "Playing Time 90s" \in cols
                  THEN Put("Progressive Carries Per 90", Per90(Sum(L, "Carries PrgC"), L))
                  ELSE Empty,
                  IF "Carries Carries" \in cols
                  THEN PctIfPositive("Progressive Carry %", Sum(L, "Carries PrgC"),
                                     Sum(L, "Carries Carries"))
                  ELSE Empty>>)
           ELSE Empty,
           IF Has(cols, {"Carries 1/3", "Playing Time 90s"})
           THEN Put("Carries into Final Third Per 90", Per90(Sum(L, "Carries 1/3"), L))
           ELSE Empty,
           IF Has(cols, {"Carries CPA", "Playing Time 90s"})
           THEN Put("Carries into Box Per 90", Per90(Sum(L, "Carries CPA"), L))
           ELSE Empty,
           IF Has(cols, {"Receiving PrgR", "Playing Time 90s"})
           THEN Put("Progressive Passes Received Per 90", Per90(Sum(L, "Receiving PrgR"), L))
           ELSE Empty
         >>)
    ELSE Empty

RetentionMetrics(cols, L) ==
    IF Has(cols, {"Carries Mis", "Carries Dis", "Carries Carries"})
    THEN LET total_carries == Sum(L, "Carries Carries")
             miscontrols == Sum(L, "Carries Mis")
             dispossessed == Sum(L, "Carries Dis")
         IN  IF total_carries > 0
             THEN Upd(<<
                    Put("Miscontrols per 100 Touches", Q(100 * miscontrols, total_carries)),
                    Put("Dispossessed per 100 Touches", Q(100 * dispossessed, total_carries)),
                    Put("Carry Success %",
                        Q(100 * (total_carries - miscontrols - dispossessed), total_carries))>>)
             ELSE Empty
    ELSE Empty

TakeOnMetrics(cols, L) ==
    IF Has(cols, {"Take-Ons Succ", "Take-Ons Att"})
    THEN LET take_on_attempts == Sum(L, "Take-Ons Att")
         IN  IF take_on_attempts > 0
             THEN Upd(<<
                    Put("Take-On Success %", Q(100 * Sum(L, "Take-Ons Succ"), take_on_attempts)),
                    IF "Playing Time 90s" \in cols
                    THEN Upd(<<Put("Take-Ons Per 90", Per90(Sum(L, "Take-Ons Att"), L)),
                               Put("Successful Take-Ons Per 90",
                                   Per90(Sum(L, "Take-Ons Succ"), L))>>)
                    ELSE Empty>>)
             ELSE Empty
    ELSE Empty

\* ----------------------------------------------------- 4. passing metrics

pass_types == <<<<"Short Cmp", "Short Att", "Short Pass Completion %">>,
                <<"Medium Cmp", "Medium Att", "Medium Pass Completion %">>,
                <<"Long Cmp", "Long Att", "Long Pass Completion %">>>>

PassCompletionMetrics(cols, L) ==
    Upd([i \in DOMAIN pass_types |->
           IF Has(cols, {pass_types[i][1], pass_types[i][2]})
           THEN Put(pass_types[i][3],
                    PctOrZero(Sum(L, pass_types[i][1]), Sum(L, pass_types[i][2])))
           ELSE Empty])

PassingMetrics(cols, L) ==
    Upd(<<
      PassCompletionMetrics(cols, L),
      IF "Total Cmp%" \in cols
      THEN Put("Pass Completion %", MeanOfValid(L, "Total Cmp%", "Total Att")) ELSE Empty,
      IF Has(cols, {"Total TotDist", "Total Att"}) /\ Sum(L, "Total Att") > 0
      THEN Put("Avg Pass Distance", Q(Sum(L, "Total TotDist"), Sum(L, "Total Att")))
      ELSE Empty,
      IF "PrgP" \in cols
      THEN Upd(<<
             IF "Playing Time 90s" \in cols
             THEN Put("Progressive Passes Per 90", Per90(Sum(L, "PrgP"), L)) ELSE Empty,
             IF "Total Att" \in cols
             THEN PctIfPositive("Progressive Pass Ratio", Sum(L, "PrgP"), Sum(L, "Total Att"))
             ELSE Empty>>)
      ELSE Empty,
      IF Has(cols, {"Total PrgDist", "Playing Time 90s"})
      THEN Put("Progressive Pass Distance Per 90", Per90(Sum(L, "Total PrgDist"), L))
      ELSE Empty,
      IF "KP" \in cols
      THEN Upd(<<
             IF "Playing Time 90s" \in cols
             THEN Put("Key Passes Per 90", Per90(Sum(L, "KP"), L)) ELSE Empty,
             IF "Total Att" \in cols
             THEN PctIfPositive("Key Pass %", Sum(L, "KP"), Sum(L, "Total Att"))
             ELSE Empty>>)
      ELSE Empty,
      IF Has(cols, {"Expected xA", "Playing Time 90s"})
      THEN Upd(<<
             Put("xA Per 90", Per90(Sum(L, "Expected xA"), L)),
             IF Has(cols, {"Ast", "KP"}) /\ Sum(L, "KP") > 0
             THEN Upd(<<Put("Assist Rate", Q(100 * Sum(L, "Ast"), Sum(L, "KP"))),
                        Put("xA per Key Pass", Q(Sum(L, "Expected xA"), Sum(L, "KP")))>>)
             ELSE Empty>>)
      ELSE Empty,
      IF Has(cols, {"Ast", "Expected xA"})
      THEN Put("A-xA", Differential(Sum(L, "Ast"), Sum(L, "Expected xA"))) ELSE Empty,
      IF Has(cols, {"xAG", "Playing Time 90s"})
      THEN Put("xAG Per 90", Per90(Sum(L, "xAG"), L)) ELSE Empty,
      IF Has(cols, {"SCA SCA", "Playing Time 90s"})
      THEN Upd(<<Put("SCA Per 90", Per90(Sum(L, "SCA SCA"), L)),
                 Breakdown(cols, L, sca_types, Sum(L, "SCA SCA"), [c \in Range(sca_types) |-> ScaName(c)])>>)
      ELSE Empty
    >>)

\* ------------------------------------------------------ 5. corner metrics

\* league_df['Squad'].nunique()
\* the row count taken for the number of distinct values
NUnique_Rows(L, c) == Len(L)

\* Series.nunique()
NUnique(L, c) == Cardinality({L[i][c] : i \in DOMAIN L})

CornerMetrics(cols, L) ==
    Upd(<<
      IF "Pass Types CK" \in cols
      THEN LET num_teams == NUnique(L, "Squad")
               \* num_teams * (num_teams - 1) / 2, kept as twice the estimate
               twice_estimated_matches == num_teams * (num_teams - 1)
               total_corners == Sum(L, "Pass Types CK")
           IN  Upd(<<
                 IF twice_estimated_matches > 0
                 THEN Put("Corners Per Match", Q(2 * total_corners, twice_estimated_matches))
                 ELSE Put("Corners Per Match", N(5)),
                 Breakdown(cols, L, corner_types, total_corners, [c \in Range(corner_types) |-> CornerTypeName(c)]),
                 IF "Corner Kicks Str" \in cols
                 THEN IF total_corners > 0
                      THEN Put("Direct Corners %",
                               Sub(N(100), Q(100 * Sum(L, "Corner Kicks Str"), total_corners)))
                      ELSE Put("Direct Corners %", N(85))
                 ELSE Empty,
                 Put("Corner Success Rate (%)", N(30))>>)
      ELSE Empty,
      IF Has(cols, {"SCA Types PassDead", "Pass Types CK"}) /\ Sum(L, "Pass Types CK") > 0
      THEN \* 100 * min(1.0, dead_ball_sca / (total_corners * 1.5))
           Put("Corner to Shot %",
               Mul(N(100), Min2(N(1), Q(2 * Sum(L, "SCA Types PassDead"),
                                        3 * Sum(L, "Pass Types CK")))))
      ELSE Empty
    >>)

\* ----------------------------------------------- 6. player impact metrics

impact_metrics == <<<<"Team Success +/-", "+/-">>,
                    <<"Team Success +/-90", "+/- per 90">>,
                    <<"Team Success On-Off", "On-Off +/-">>,
                    <<"Team Success (xG) xG+/-", "xG +/-">>,
                    <<"Team Success (xG) xG+/-90", "xG +/- per 90">>,
                    <<"Team Success (xG) On-Off", "xG On-Off">>,
                    <<"Team Success PPM", "Points per Match">>>>

\* league_df[c].mean()
Mean(L, c) == Q(Sum(L, c), Len(L))

ImpactMetrics(cols, L) ==
    Upd(<<
      Upd([i \in DOMAIN impact_metrics |->
             IF impact_metrics[i][1] \in cols
             THEN Put(impact_metrics[i][2], Mean(L, impact_metrics[i][1])) ELSE Empty]),
      IF Has(cols, {"Performance Gls", "Ast", "Playing Time 90s"})
      THEN Upd(<<
             Put("G+A Per 90", Per90(Sum(L, "Performance Gls") + Sum(L, "Ast"), L)),
             IF "Performance G-PK" \in cols
             THEN Put("G+A-PK Per 90", Per90(Sum(L, "Performance G-PK") + Sum(L, "Ast"), L))
             ELSE Empty>>)
      ELSE Empty,
      IF Has(cols, {"Expected xG", "Expected xA", "Playing Time 90s"})
      THEN Upd(<<
             Put("xG+xA Per 90", Per90(Sum(L, "Expected xG") + Sum(L, "Expected xA"), L)),
             IF "Expected npxG" \in cols
             THEN Put("npxG+xA Per 90",
                      Per90(Sum(L, "Expected npxG") + Sum(L, "Expected xA"), L))
             ELSE Empty>>)
      ELSE Empty
    >>)

\* -------------------------------------------------- 7. efficiency metrics

EfficiencyMetrics(cols, L) ==
    Upd(<<
      IF "Touches Touches" \in cols /\ Sum(L, "Touches Touches") > 0
      THEN LET touches == Sum(L, "Touches Touches") IN
           Upd(<<
             IF Has(cols, {"Performance Gls", "Ast"})
             THEN Put("Goal Impact per 100 Touches",
                      Q(100 * (Sum(L, "Performance Gls") + Sum(L, "Ast")), touches))
             ELSE Empty,
             IF Has(cols, {"Expected xG", "Expected xA"})
             THEN Put("xG+xA per 100 Touches",
                      Q(100 * (Sum(L, "Expected xG") + Sum(L, "Expected xA")), touches))
             ELSE Empty,
             IF "SCA SCA" \in cols
             THEN Put("SCA per 100 Touches", Q(100 * Sum(L, "SCA SCA"), touches))
             ELSE Empty>>)
      ELSE Empty,
      IF "Total Att" \in cols /\ Sum(L, "Total Att") > 0
      THEN LET passes == Sum(L, "Total Att") IN
           Upd(<<
             IF "PrgP" \in cols
             THEN Put("Progressive Pass %", Q(100 * Sum(L, "PrgP"), passes)) ELSE Empty,
             IF "KP" \in cols
             THEN Put("Key Pass %", Q(100 * Sum(L, "KP"), passes)) ELSE Empty>>)
      ELSE Empty,
      IF "Carries Carries" \in cols /\ Sum(L, "Carries Carries") > 0
      THEN LET carries == Sum(L, "Carries Carries") IN
           Upd(<<
             IF "Carries PrgC" \in cols
             THEN Put("Progressive Carry %", Q(100 * Sum(L, "Carries PrgC"), carries))
             ELSE Empty,
             IF "Carries 1/3" \in cols
             THEN Put("Final Third Entry per Carry %", Q(100 * Sum(L, "Carries 1/3"), carries))
             ELSE Empty,
             IF "Carries CPA" \in cols
             THEN Put("Box Entry per Carry %", Q(100 * Sum(L, "Carries CPA"), carries))
             ELSE Empty>>)
      ELSE Empty
    >>)

\* --------------------------------------------------- 8. composite metrics

\* (3 * att + 2 * mid + def) / (att + mid + def)
\* the index with the weights of the attacking and the defensive third swapped
PressingIntensity_Swapped(att, mid, def) == Q(att + 2 * mid + 3 * def, att + mid + def)

\* (3 * att + 2 * mid + def) / total_tackles
PressingIntensity(att, mid, def) == Q(3 * att + 2 * mid + def, att + mid + def)

CompositeMetrics(cols, L) ==
    Upd(<<
      IF Has(cols, {"Performance Gls", "Ast"})
      THEN Upd(<<
             IF "Expected xG" \in cols /\ "Expected xA" \in cols
                   /\ Sum(L, "Expected xG") + Sum(L, "Expected xA") > 0
             THEN Put("Offensive Efficiency",
                      Q(Sum(L, "Performance Gls") + Sum(L, "Ast"),
                        Sum(L, "Expected xG") + Sum(L, "Expected xA")))
             ELSE Empty,
             IF Has(cols, {"Expected G-xG", "Expected A-xAG", "PrgP", "Carries PrgC"})
             THEN LET total_players == IF Len(L) > 1 THEN Len(L) ELSE 1 IN
                  Put("Offensive Value Added",
                      Add(Add(N(Sum(L, "Expected G-xG")), N(Sum(L, "Expected A-xAG"))),
                          Add(Q(Sum(L, "PrgP"), total_players * 10),
                              Q(Sum(L, "Carries PrgC"), total_players * 10))))
             ELSE Empty>>)
      ELSE Empty,
      IF Has(cols, {"Int", "Tackles TklW", "Clr", "Blocks Blocks"})
      THEN Put("Defensive Value Metric",
               Q(Sum(L, "Int") + Sum(L, "Tackles TklW") + Sum(L, "Clr")
                    + Sum(L, "Blocks Blocks"),
                 IF Len(L) > 1 THEN Len(L) ELSE 1))
      ELSE Empty,
      IF Has(cols, {"Total Att", "Total Cmp%", "Long Att"}) /\ Sum(L, "Total Att") > 0
      THEN \* (long_pass_ratio * 100) / (pass_completion / 100)
           Put("Direct Play Index",
               Div(Mul(Q(Sum(L, "Long Att"), Sum(L, "Total Att")), N(100)),
                   Div(Mean(L, "Total Cmp%"), N(100))))
      ELSE Empty,
      IF Has(cols, {"Tackles Att 3rd", "Tackles Mid 3rd", "Tackles Def 3rd"})
            /\ Sum(L, "Tackles Att 3rd") + Sum(L, "Tackles Mid 3rd")
                  + Sum(L, "Tackles Def 3rd") > 0
      THEN Put("Pressing Intensity",
               PressingIntensity(Sum(L, "Tackles Att 3rd"), Sum(L, "Tackles Mid 3rd"),
                                 Sum(L, "Tackles Def 3rd")))
      ELSE Empty
    >>)

\* ------------------------------------------------------- the league record

\* league_df[c] for a column the code reads without checking that it exists
RaisesKeyError(cols) ==
    \/ "Pressure Succ%" \in cols /\ "Pressure Press" \notin cols
    \/ "Total Cmp%" \in cols /\ "Total Att" \notin cols

\* the dict league_data after the eight sections, for the rows L of one league
LeagueData(cols, league, L) ==
    Upd(<<Put("League", league),
          AttackMetrics(cols, L), GoalCreationMetrics(cols, L), ThreatMetrics(cols, L),
          DefensiveMetrics(cols, L),
          TouchMetrics(cols, L), RetentionMetrics(cols, L), TakeOnMetrics(cols, L),
          PassingMetrics(cols, L), CornerMetrics(cols, L), ImpactMetrics(cols, L),
          EfficiencyMetrics(cols, L), CompositeMetrics(cols, L)>>)

\* --------------------------------------------------------- the defaults

\* the entries of the dict literal default_values, in source order
default_items == <<
    <<"Shots Per 90", <<12, 1>>>>,
    <<"Shot on Target %", <<35, 1>>>>,
    <<"xG Per Shot", <<1, 10>>>>,
    <<"Goals Per Shot", <<1, 10>>>>,
    <<"Conversion Rate", <<10, 1>>>>,
    <<"Goals per SoT", <<3, 10>>>>,
    <<"G-xG", <<0, 1>>>>,
    <<"GCA Per 90", <<2, 1>>>>,
    <<"Box Touches %", <<7, 1>>>>,
    <<"Carries into Box Per 90", <<4, 1>>>>,
    <<"Passes into Box Per 90", <<5, 1>>>>,
    <<"Non-Penalty Goals Per 90", <<6, 5>>>>,
    <<"Penalty Conversion %", <<75, 1>>>>,
    <<"Tackles Per 90", <<15, 1>>>>,
    <<"Tackle Success %", <<65, 1>>>>,
    <<"Interceptions Per 90", <<10, 1>>>>,
    <<"Tackles+Interceptions Per 90", <<25, 1>>>>,
    <<"Blocks Per 90", <<8, 1>>>>,
    <<"Shot Blocks %", <<50, 1>>>>,
    <<"Pass Blocks %", <<50, 1>>>>,
    <<"Clearances Per 90", <<20, 1>>>>,
    <<"Errors Per 90", <<1, 2>>>>,
    <<"Def 3rd Tackles %", <<50, 1>>>>,
    <<"Mid 3rd Tackles %", <<35, 1>>>>,
    <<"Att 3rd Tackles %", <<15, 1>>>>,
    <<"Aerial Duels Won %", <<50, 1>>>>,
    <<"Pressure Success %", <<30, 1>>>>,
    <<"Recoveries Per 90", <<35, 1>>>>,
    <<"Possession %", <<50, 1>>>>,
    <<"Touches Per 90", <<500, 1>>>>,
    <<"Def 3rd Touch %", <<30, 1>>>>,
    <<"Mid 3rd Touch %", <<50, 1>>>>,
    <<"Att 3rd Touch %", <<20, 1>>>>,
    <<"Att Pen Touch %", <<5, 1>>>>,
    <<"Def Pen Touch %", <<3, 1>>>>,
    <<"Progressive Carries Per 90", <<30, 1>>>>,
    <<"Progressive Carry %", <<15, 1>>>>,
    <<"Carries into Final Third Per 90", <<15, 1>>>>,
    <<"Carries into Box Per 90", <<2, 1>>>>,
    <<"Progressive Passes Received Per 90", <<25, 1>>>>,
    <<"Miscontrols per 100 Touches", <<3, 1>>>>,
    <<"Dispossessed per 100 Touches", <<2, 1>>>>,
    <<"Carry Success %", <<95, 1>>>>,
    <<"Take-On Success %", <<55, 1>>>>,
    <<"Take-Ons Per 90", <<8, 1>>>>,
    <<"Successful Take-Ons Per 90", <<9, 2>>>>,
    <<"Short Pass Completion %", <<88, 1>>>>,
    <<"Medium Pass Completion %", <<80, 1>>>>,
    <<"Long Pass Completion %", <<55, 1>>>>,
    <<"Pass Completion %", <<80, 1>>>>,
    <<"Avg Pass Distance", <<18, 1>>>>,
    <<"Progressive Passes Per 90", <<35, 1>>>>,
    <<"Progressive Pass Ratio", <<10, 1>>>>,
    <<"Progressive Pass Distance Per 90", <<400, 1>>>>,
    <<"Key Passes Per 90", <<3, 2>>>>,
    <<"Key Pass %", <<3, 1>>>>,
    <<"xA Per 90", <<1, 5>>>>,
    <<"Assist Rate", <<10, 1>>>>,
    <<"xA per Key Pass", <<1, 10>>>>,
    <<"A-xA", <<0, 1>>>>,
    <<"xAG Per 90", <<1, 4>>>>,
    <<"SCA Per 90", <<3, 1>>>>,
    <<"Corners Per Match", <<5, 1>>>>,
    <<"In Corner %", <<25, 1>>>>,
    <<"Out Corner %", <<60, 1>>>>,
    <<"Str Corner %", <<15, 1>>>>,
    <<"Direct Corners %", <<85, 1>>>>,
    <<"Corner Success Rate (%)", <<30, 1>>>>,
    <<"Corner to Shot %", <<25, 1>>>>,
    <<"+/-", <<0, 1>>>>,
    <<"+/- per 90", <<0, 1>>>>,
    <<"On-Off +/-", <<0, 1>>>>,
    <<"xG +/-", <<0, 1>>>>,
    <<"xG +/- per 90", <<0, 1>>>>,
    <<"xG On-Off", <<0, 1>>>>,
    <<"Points per Match", <<3, 2>>>>,
    <<"G+A Per 90", <<2, 5>>>>,
    <<"G+A-PK Per 90", <<7, 20>>>>,
    <<"xG+xA Per 90", <<2, 5>>>>,
    <<"npxG+xA Per 90", <<7, 20>>>>,
    <<"Goal Impact per 100 Touches", <<4, 5>>>>,
    <<"xG+xA per 100 Touches", <<4, 5>>>>,
    <<"SCA per 100 Touches", <<5, 1>>>>,
    <<"Progressive Pass %", <<12, 1>>>>,
    <<"Key Pass %", <<3, 1>>>>,
    <<"Progressive Carry %", <<10, 1>>>>,
    <<"Final Third Entry per Carry %", <<5, 1>>>>,
    <<"Box Entry per Carry %", <<3, 2>>>>,
    <<"Offensive Efficiency", <<1, 1>>>>,
    <<"Offensive Value Added", <<0, 1>>>>,
    <<"Defensive Value Metric", <<50, 1>>>>,
    <<"Direct Play Index", <<100, 1>>>>,
    <<"Pressing Intensity", <<3, 2>>>>>>

\* the dict the literal evaluates to: a name listed twice keeps its last value
default_values ==
    [m \in {default_items[i][1] : i \in DOMAIN default_items} |->
        default_items[CHOOSE i \in DOMAIN default_items :
                         /\ default_items[i][1] = m
                         /\ \A j \in DOMAIN default_items :
                               default_items[j][1] = m => j <= i][2]]

\* pd.DataFrame(league_metrics): the columns are the union of the records' keys,
\* a key a record lacks is NaN in its row
DataFrame(records) ==
    LET cols == UNION {DOMAIN records[i] : i \in DOMAIN records}
    IN  Table(cols, [i \in DOMAIN records |->
                        [c \in cols |-> IF c \in DOMAIN records[i] THEN records[i][c] ELSE NaN]])

\* a defaulting pass that fills the missing columns with 0
FillDefaults_Zero(t) ==
    LET add == DOMAIN default_values \ t.columns
    IN  Table(t.columns \cup add,
              [i \in DOMAIN t.rows |->
                 [c \in t.columns \cup add |-> IF c \in add THEN N(0) ELSE t.rows[i][c]]])

\* a defaulting pass that also fills the missing cells of the columns it finds
FillDefaults_FillGaps(t) ==
    LET all == t.columns \cup DOMAIN default_values
    IN  Table(all,
              [i \in DOMAIN t.rows |->
                 [c \in all |->
                    IF c \notin t.columns \/ (c \in DOMAIN default_values /\ IsNaN(t.rows[i][c]))
                    THEN default_values[c] ELSE t.rows[i][c]]])

\* "for col, val in default_values.items(): if col not in leagues_df.columns:
\*  leagues_df[col] = val"
FillDefaults(t) ==
    LET add == DOMAIN default_values \ t.columns
    IN  Table(t.columns \cup add,
              [i \in DOMAIN t.rows |->
                 [c \in t.columns \cup add |->
                    IF c \in add THEN default_values[c] ELSE t.rows[i][c]]])

\* ------------------------------------------------------- the player table

\* player_cols + [col for col in metric_cols if col in df.columns]
available_cols(d) == Range(player_cols) \cup (Range(metric_cols) \cap d.columns)

\* df[available_cols].copy(): every row, restricted to the listed columns
Project(d, cols) == Table(cols, [i \in DOMAIN d.rows |-> [c \in cols |-> d.rows[i][c]]])

\* ------------------------------------------------- the synthetic tables

\* load_sample_data: the five sample leagues
sample_leagues == <<"Premier League", "La Liga", "Bundesliga", "Serie A", "Ligue 1">>

\* the metric keys of the sample league records
sample_metrics == {
    "Shots Per 90", "Shot on Target %", "xG Per Shot", "Goals Per Shot", "Conversion Rate",
    "Goals per SoT", "G-xG", "GCA Per 90", "Box Touches %", "Carries into Box Per 90",
    "Passes into Box Per 90", "Tackles Per 90", "Tackle Success %", "Interceptions Per 90",
    "Blocks Per 90", "Clearances Per 90", "Aerial Duels Won %", "Pressure Success %",
    "Possession %", "Touches in Attacking Third", "Progressive Carries Per 90",
    "Progressive Carry %", "Take-On Success %", "Pass Completion %",
    "Progressive Passes Per 90", "Key Passes Per 90", "xA Per 90", "SCA Per 90",
    "Corners Per Match", "Corner Success Rate (%)", "Direct Corners %",
    "Offensive Efficiency", "Pressing Intensity", "Direct Play Index"}

\* the numeric keys of the sample player records
sample_player_metrics == {
    "Performance Gls", "Performance Ast", "Standard Sh", "Standard SoT", "Expected xG",
    "Total Cmp%", "PrgP", "Carries PrgC", "Tackles Tkl", "Int", "Playing Time 90s",
    "Touches Touches"}

\* a cell drawn by np.random.normal or np.random.poisson (seed 42): a finite
\* number; the drawn value itself is not modelled
Drawn == "drawn"

SampleLeagues ==
    Table({"League"} \cup sample_metrics,
          [i \in DOMAIN sample_leagues |->
              [c \in {"League"} \cup sample_metrics |->
                  IF c = "League" THEN sample_leagues[i] ELSE Drawn]])

\* positions and the number of players generated for each, per team
positions == <<"GK", "DF", "MF", "FW">>
PlayersOf(pos) == IF pos \in {"MF", "DF"} THEN 3 ELSE 2

\* the (league, team, position, i) loops of load_sample_data, in order: five
\* leagues, "for team in range(5)", four positions
SamplePlayerKeys ==
    LET Keys(l, t, p) == [i \in 1..PlayersOf(positions[p]) |-> <<l, t, p, i>>]
        OfTeam(l, t) == Keys(l, t, 1) \o Keys(l, t, 2) \o Keys(l, t, 3) \o Keys(l, t, 4)
        OfLeague(l) == OfTeam(l, 1) \o OfTeam(l, 2) \o OfTeam(l, 3) \o OfTeam(l, 4)
                          \o OfTeam(l, 5)
    IN  OfLeague(1) \o OfLeague(2) \o OfLeague(3) \o OfLeague(4) \o OfLeague(5)

SamplePlayers ==
    LET cols == Range(player_cols) \cup sample_player_metrics
    IN  Table(cols,
              [n \in DOMAIN SamplePlayerKeys |->
                  LET k == SamplePlayerKeys[n] IN
                  [c \in cols |->
                      CASE c = "Player" -> <<"Player", k[4], positions[k[3]]>>
                        [] c = "Squad" -> <<"Team", k[2], sample_leagues[k[1]]>>
                        [] c = "Competition" -> sample_leagues[k[1]]
                        [] c = "Pos" -> positions[k[3]]
                        [] OTHER -> Drawn]])

\* "return leagues_df, players_df"
load_sample_data == <<SampleLeagues, SamplePlayers>>

\* ------------------------------------------------------------------ state

VARIABLES
    df,              \* the argument of process_football_data
    pc,              \* position in the function
    leagues,         \* df['Competition'].unique()
    idx,             \* index in leagues of the next loop iteration
    league_metrics,  \* list of league_data records
    player_df,       \* the player table being built
    leagues_df,      \* the league table being built
    ret,             \* the returned pair, once pc = "done"
    outcome,         \* which return statement was taken
    result,          \* the value returned by load_and_process_data
    app              \* the caller (app.py) after unpacking that value

vars == <<df, pc, leagues, idx, league_metrics, player_df, leagues_df, ret, outcome,
          result, app>>

Init ==
    /\ df \in Inputs
    /\ pc = "start"
    /\ leagues = <<>>
    /\ idx = 1
    /\ league_metrics = <<>>
    /\ player_df = None
    /\ leagues_df = None
    /\ ret = [leagues |-> None, players |-> None]
    /\ outcome = "running"
    /\ result = <<>>
    /\ app = [state |-> "waiting"]

Return(l, p, how) ==
    /\ pc' = "done"
    /\ ret' = [leagues |-> l, players |-> p]
    /\ outcome' = how

\* the values of the first and of the last row, not compared with each other
Unique_Ends(rows, c) ==
    IF rows = <<>> THEN <<>> ELSE <<rows[1][c], rows[Len(rows)][c]>>

\* Series.unique(): the distinct values in order of first appearance
RECURSIVE Unique(_, _)
Unique(rows, c) ==
    IF rows = <<>> THEN <<>>
    ELSE LET rest == Unique(SubSeq(rows, 1, Len(rows) - 1), c)
             v == rows[Len(rows)][c]
         IN  IF v \in Range(rest) THEN rest ELSE Append(rest, v)

\* the identity check without the squad column
missing_cols_NoSquad(d) == (required_cols \ {"Squad"}) \ d.columns

\* "missing_cols = [col for col in required_cols if col not in df.columns]"
missing_cols(d) == required_cols \ d.columns

\* lines 45-58: the None check, the identity-column check, the league list
Start ==
    /\ pc = "start"
    /\ IF df.none
       THEN /\ Return(None, None, "none_input")
            /\ UNCHANGED <<leagues>>
       ELSE IF missing_cols(df) # {}
       THEN /\ Return(None, None, "missing_cols")
            /\ UNCHANGED <<leagues>>
       ELSE /\ leagues' = Unique(df.rows, "Competition")
            /\ pc' = "loop"
            /\ UNCHANGED <<ret, outcome>>
    /\ UNCHANGED <<df, idx, league_metrics, player_df, leagues_df, result, app>>

\* df[df['Competition'] == league]
LeagueDf(d, league) == SelectSeq(d.rows, LAMBDA r : r["Competition"] = league)

\* the size test with <= for <
TooFewPlayers_OffByOne(L) == Len(L) <= MinLeagueRows

\* "if league_df.shape[0] < 10: continue"
TooFewPlayers(L) == Len(L) < MinLeagueRows

\* "if len(league_data) > 5"
EnoughData(league_data) == Cardinality(DOMAIN league_data) > MinEntries

\* lines 63-591: one iteration of "for league in leagues"
LeagueIter ==
    /\ pc = "loop"
    /\ idx <= Len(leagues)
    /\ LET league == leagues[idx]
           league_df == LeagueDf(df, league)
       IN  IF TooFewPlayers(league_df)
           THEN /\ idx' = idx + 1
                /\ UNCHANGED <<pc, league_metrics, ret, outcome>>
           ELSE IF RaisesKeyError(df.columns)
           THEN /\ Return(None, None, "exception")
                /\ UNCHANGED <<idx, league_metrics>>
           ELSE LET league_data == LeagueData(df.columns, league, league_df)
                IN  /\ league_metrics' = IF EnoughData(league_data)
                                         THEN Append(league_metrics, league_data)
                                         ELSE league_metrics
                    /\ idx' = idx + 1
                    /\ UNCHANGED <<pc, ret, outcome>>
    /\ UNCHANGED <<df, leagues, player_df, leagues_df, result, app>>

\* lines 593-625: the player table; df[available_cols] raises KeyError when a
\* listed column is not in df
BuildPlayers ==
    /\ pc = "loop"
    /\ idx > Len(leagues)
    /\ IF available_cols(df) \subseteq df.columns
       THEN /\ player_df' = Project(df, available_cols(df))
            /\ pc' = "assemble"
            /\ UNCHANGED <<ret, outcome>>
       ELSE /\ Return(None, None, "exception")
            /\ UNCHANGED player_df
    /\ UNCHANGED <<df, leagues, idx, league_metrics, leagues_df, result, app>>

\* lines 627-629, 748-750: the league table, or (None, None) without records
Assemble ==
    /\ pc = "assemble"
    /\ IF league_metrics # <<>>
       THEN /\ leagues_df' = DataFrame(league_metrics)
            /\ pc' = "defaults"
            /\ UNCHANGED <<ret, outcome>>
       ELSE /\ Return(None, None, "no_metrics")
            /\ UNCHANGED leagues_df
    /\ UNCHANGED <<df, leagues, idx, league_metrics, player_df, result, app>>

\* the return of the league table without the player table
Defaults_LeagueOnly ==
    /\ pc = "defaults"
    /\ leagues_df' = FillDefaults(leagues_df)
    /\ Return(leagues_df', None, "ok")
    /\ UNCHANGED <<df, leagues, idx, league_metrics, player_df, result, app>>

\* lines 631-747: the defaulting pass and the return
Defaults ==
    /\ pc = "defaults"
    /\ leagues_df' = FillDefaults(leagues_df)
    /\ Return(leagues_df', player_df, "ok")
    /\ UNCHANGED <<df, leagues, idx, league_metrics, player_df, result, app>>

\* data_loader.py:756-774, load_and_process_data: df is what load_data_from_github
\* returned. Without a table (the fetch failed) process_football_data is not
\* called; with one, the loader goes on when process_football_data has returned.
\* Three values are returned for a league table, otherwise the pair of
\* load_sample_data() and True.
LoadAndProcess ==
    /\ \/ pc = "start" /\ df.none
       \/ pc = "done" /\ ~df.none
    /\ result' = IF ~df.none /\ ~ret.leagues.none
                 THEN <<ret.leagues, ret.players, FALSE>>
                 ELSE <<load_sample_data, TRUE>>
    /\ pc' = "loaded"
    /\ UNCHANGED <<df, leagues, idx, league_metrics, player_df, leagues_df, ret, outcome,
                   app>>

\* app.py:73, "leagues_df, players_df, using_sample_data = load_and_process_data()":
\* unpacking a tuple that has not three elements raises ValueError
AppUnpack ==
    /\ pc = "loaded"
    /\ app' = IF Len(result) = 3
              THEN [state |-> "ok", leagues_df |-> result[1], players_df |-> result[2],
                    using_sample_data |-> result[3]]
              ELSE [state |-> "ValueError"]
    /\ pc' = "app"
    /\ UNCHANGED <<df, leagues, idx, league_metrics, player_df, leagues_df, ret, outcome,
                   result>>

Next ==
    \/ Start \/ LeagueIter \/ BuildPlayers \/ Assemble \/ Defaults
    \/ LoadAndProcess \/ AppUnpack

Spec == Init /\ [][Next]_vars

\* ------------------------------------------------- the metrics' sources

\* for each metric of the catalog, the columns of the input that its formula in
\* process_football_data reads
metric_sources == <<
    <<"Shots Per 90", {"Standard Sh", "Playing Time 90s"}>>,
    <<"Shot on Target %", {"Standard SoT", "Standard Sh"}>>,
    <<"xG Per Shot", {"Expected xG", "Standard Sh"}>>,
    <<"Goals Per Shot", {"Performance Gls", "Standard Sh"}>>,
    <<"Conversion Rate", {"Performance Gls", "Standard Sh"}>>,
    <<"Goals per SoT", {"Performance Gls", "Standard SoT"}>>,
    <<"G-xG", {"Performance Gls", "Expected xG"}>>,
    <<"GCA Per 90", {"GCA GCA", "Playing Time 90s"}>>,
    <<"Box Touches %", {"Touches Att Pen", "Touches Touches"}>>,
    <<"Carries into Box Per 90", {"Carries CPA", "Playing Time 90s"}>>,
    <<"Passes into Box Per 90", {"PPA", "Playing Time 90s"}>>,
    <<"Non-Penalty Goals Per 90", {"Performance G-PK", "Playing Time 90s"}>>,
    <<"Penalty Conversion %", {"Performance PK", "Standard PKatt"}>>,
    <<"Tackles Per 90", {"Tackles Tkl", "Playing Time 90s"}>>,
    <<"Tackle Success %", {"Tackles TklW", "Tackles Tkl"}>>,
    <<"Interceptions Per 90", {"Int", "Playing Time 90s"}>>,
    <<"Tackles+Interceptions Per 90", {"Tackles Tkl", "Int", "Playing Time 90s",
    "Touches Touches"}>>,
    <<"Blocks Per 90", {"Blocks Blocks", "Playing Time 90s"}>>,
    <<"Shot Blocks %", {"Blocks Sh", "Blocks Blocks"}>>,
    <<"Pass Blocks %", {"Blocks Pass", "Blocks Blocks"}>>,
    <<"Clearances Per 90", {"Clr", "Playing Time 90s"}>>,
    <<"Errors Per 90", {"Err", "Playing Time 90s"}>>,
    <<"Def 3rd Tackles %", {"Tackles Def 3rd", "Tackles Mid 3rd", "Tackles Att 3rd"}>>,
    <<"Mid 3rd Tackles %", {"Tackles Def 3rd", "Tackles Mid 3rd", "Tackles Att 3rd"}>>,
    <<"Att 3rd Tackles %", {"Tackles Def 3rd", "Tackles Mid 3rd", "Tackles Att 3rd"}>>,
    <<"Aerial Duels Won %", {"Aerial Duels Won", "Aerial Duels Lost"}>>,
    <<"Pressure Success %", {"Pressure Succ%", "Pressure Press"}>>,
    <<"Recoveries Per 90", {"Performance Recov", "Playing Time 90s"}>>,
    <<"Possession %", {"Touches Touches"}>>,
    <<"Touches Per 90", {"Touches Touches", "Playing Time 90s"}>>,
    <<"Def 3rd Touch %", {"Touches Def 3rd", "Touches Touches"}>>,
    <<"Mid 3rd Touch %", {"Touches Mid 3rd", "Touches Touches"}>>,
    <<"Att 3rd Touch %", {"Touches Att 3rd", "Touches Touches"}>>,
    <<"Att Pen Touch %", {"Touches Att Pen", "Touches Touches"}>>,
    <<"Def Pen Touch %", {"Touches Def Pen", "Touches Touches"}>>,
    <<"Progressive Carries Per 90", {"Carries PrgC", "Playing Time 90s"}>>,
    <<"Progressive Carry %", {"Carries PrgC", "Carries Carries"}>>,
    <<"Carries into Final Third Per 90", {"Carries 1/3", "Playing Time 90s"}>>,
    <<"Progressive Passes Received Per 90", {"Receiving PrgR", "Playing Time 90s"}>>,
    <<"Miscontrols per 100 Touches", {"Carries Mis", "Carries Carries"}>>,
    <<"Dispossessed per 100 Touches", {"Carries Dis", "Carries Carries"}>>,
    <<"Carry Success %", {"Carries Mis", "Carries Dis", "Carries Carries"}>>,
    <<"Take-On Success %", {"Take-Ons Succ", "Take-Ons Att"}>>,
    <<"Take-Ons Per 90", {"Take-Ons Att", "Playing Time 90s"}>>,
    <<"Successful Take-Ons Per 90", {"Take-Ons Succ", "Playing Time 90s"}>>,
    <<"Short Pass Completion %", {"Short Cmp", "Short Att"}>>,
    <<"Medium Pass Completion %", {"Medium Cmp", "Medium Att"}>>,
    <<"Long Pass Completion %", {"Long Cmp", "Long Att"}>>,
    <<"Pass Completion %", {"Total Cmp%", "Total Att"}>>,
    <<"Avg Pass Distance", {"Total TotDist", "Total Att"}>>,
    <<"Progressive Passes Per 90", {"PrgP", "Playing Time 90s"}>>,
    <<"Progressive Pass Ratio", {"PrgP", "Total Att"}>>,
    <<"Progressive Pass Distance Per 90", {"Total PrgDist", "Playing Time 90s"}>>,
    <<"Key Passes Per 90", {"KP", "Playing Time 90s"}>>,
    <<"Key Pass %", {"KP", "Total Att"}>>,
    <<"xA Per 90", {"Expected xA", "Playing Time 90s"}>>,
    <<"Assist Rate", {"Ast", "KP"}>>,
    <<"xA per Key Pass", {"Expected xA", "KP"}>>,
    <<"A-xA", {"Ast", "Expected xA"}>>,
    <<"xAG Per 90", {"xAG", "Playing Time 90s"}>>,
    <<"SCA Per 90", {"SCA SCA", "Playing Time 90s"}>>,
    <<"Corners Per Match", {"Pass Types CK"}>>,
    <<"In Corner %", {"Corner Kicks In", "Pass Types CK"}>>,
    <<"Out Corner %", {"Corner Kicks Out", "Pass Types CK"}>>,
    <<"Str Corner %", {"Corner Kicks Str", "Pass Types CK"}>>,
    <<"Direct Corners %", {"Corner Kicks Str", "Pass Types CK"}>>,
    <<"Corner Success Rate (%)", {"Pass Types CK"}>>,
    <<"Corner to Shot %", {"SCA Types PassDead", "Pass Types CK"}>>,
    <<"+/-", {"Team Success +/-"}>>,
    <<"+/- per 90", {"Team Success +/-90"}>>,
    <<"On-Off +/-", {"Team Success On-Off"}>>,
    <<"xG +/-", {"Team Success (xG) xG+/-"}>>,
    <<"xG +/- per 90", {"Team Success (xG) xG+/-90"}>>,
    <<"xG On-Off", {"Team Success (xG) On-Off"}>>,
    <<"Points per Match", {"Team Success PPM"}>>,
    <<"G+A Per 90", {"Performance Gls", "Ast", "Playing Time 90s"}>>,
    <<"G+A-PK Per 90", {"Performance G-PK", "Ast", "Playing Time 90s"}>>,
    <<"xG+xA Per 90", {"Expected xG", "Expected xA", "Playing Time 90s"}>>,
    <<"npxG+xA Per 90", {"Expected npxG", "Expected xA", "Playing Time 90s"}>>,
    <<"Goal Impact per 100 Touches", {"Performance Gls", "Ast", "Touches Touches"}>>,
    <<"xG+xA per 100 Touches", {"Expected xG", "Expected xA", "Touches Touches"}>>,
    <<"SCA per 100 Touches", {"SCA SCA", "Touches Touches"}>>,
    <<"Progressive Pass %", {"PrgP", "Total Att"}>>,
    <<"Final Third Entry per Carry %", {"Carries 1/3", "Carries Carries"}>>,
    <<"Box Entry per Carry %", {"Carries CPA", "Carries Carries"}>>,
    <<"Offensive Efficiency", {"Performance Gls", "Ast", "Expected xG", "Expected xA"}>>,
    <<"Offensive Value Added", {"Expected G-xG", "Expected A-xAG", "PrgP", "Carries PrgC"}>>,
    <<"Defensive Value Metric", {"Int", "Tackles TklW", "Clr", "Blocks Blocks"}>>,
    <<"Direct Play Index", {"Total Att", "Total Cmp%", "Long Att"}>>,
    <<"Pressing Intensity", {"Tackles Att 3rd", "Tackles Mid 3rd", "Tackles Def 3rd"}>>>>

MetricSources ==
    [m \in {metric_sources[i][1] : i \in DOMAIN metric_sources} |->
        metric_sources[CHOOSE i \in DOMAIN metric_sources : metric_sources[i][1] = m][2]]

\* ------------------------------------------------------------ observations

Returned == pc = "done"
\* the call returned a league table
ReturnedTable == pc = "done" /\ outcome = "ok"

\* the metric columns of a league table
MetricColumns(t) == t.columns \ {"League"}
Catalog == DOMAIN default_values

\* number of rows of the input whose league is l
RowsOf(l) == Len(LeagueDf(df, l))
InputLeagues == {df.rows[i]["Competition"] : i \in DOMAIN df.rows}
\* the league table has a row for league l
HasLeagueRow(t, l) == ~t.none /\ \E i \in DOMAIN t.rows : t.rows[i]["League"] = l

\* C1: every league table returned for an input with the identity columns has
\* exactly the catalog's metrics as its metric columns
C1_SchemaIsCatalog ==
    ReturnedTable /\ required_cols \subseteq df.columns
        => MetricColumns(ret.leagues) = Catalog

\* C2: every metric cell of every row of a returned league table is a finite number
C2_AllCellsFinite ==
    ReturnedTable =>
        \A i \in DOMAIN ret.leagues.rows : \A m \in MetricColumns(ret.leagues) :
            IsFinite(ret.leagues.rows[i][m])

\* number of metrics derived for league l (the entries of its record but "League")
NumDerived(l) ==
    Cardinality(DOMAIN LeagueData(df.columns, l, LeagueDf(df, l))) - 1

C4_PlayersOfQualifyingLeagues ==
    ReturnedTable =>
        \A i \in DOMAIN ret.players.rows :
            RowsOf(ret.players.rows[i]["Competition"]) >= MinLeagueRows

\* the rows of the spec's scenario: 12 rows of League A with shots 10, shots on
\* target 4 and playing time 1, and 5 rows of League B
ScenarioRows ==
    /\ ~df.none /\ required_cols \cup ScenarioCols \subseteq df.columns
    /\ InputLeagues = {"League A", "League B"}
    /\ RowsOf("League A") = 12 /\ RowsOf("League B") = 5
    /\ \A i \in DOMAIN df.rows :
          df.rows[i]["Competition"] = "League A" =>
              /\ df.rows[i]["Standard Sh"] = 10
              /\ df.rows[i]["Standard SoT"] = 4
              /\ df.rows[i]["Playing Time 90s"] = 1
\* ... with no other metric column
ScenarioInput == ScenarioRows /\ df.columns \cap NumericCols = ScenarioCols

\* the league table is the single row of League A with the scenario's values
ScenarioTable(t) ==
    /\ ~t.none
    /\ Len(t.rows) = 1
    /\ t.rows[1]["League"] = "League A"
    /\ t.rows[1]["Shots Per 90"] = N(10)
    /\ t.rows[1]["Shot on Target %"] = N(40)

pct_of_attempts == <<
    <<"Shot on Target %", "Standard SoT", "Standard Sh">>,
    <<"Penalty Conversion %", "Performance PK", "Standard PKatt">>,
    <<"Tackle Success %", "Tackles TklW", "Tackles Tkl">>,
    <<"Take-On Success %", "Take-Ons Succ", "Take-Ons Att">>,
    <<"Short Pass Completion %", "Short Cmp", "Short Att">>,
    <<"Medium Pass Completion %", "Medium Cmp", "Medium Att">>,
    <<"Long Pass Completion %", "Long Cmp", "Long Att">>>>

\* the input rows of the league of row i of the returned league table
RowsOfRow(i) == LeagueDf(df, ret.leagues.rows[i]["League"])

\* C6: a league whose attempts sum to 0, the successes and attempts columns
\* being present, has 0 as the value of the percentage-of-attempts metric
C6_ZeroAttemptsGiveZero ==
    ReturnedTable =>
        \A i \in DOMAIN ret.leagues.rows : \A k \in DOMAIN pct_of_attempts :
            LET p == pct_of_attempts[k] IN
            {p[2], p[3]} \subseteq df.columns /\ Sum(RowsOfRow(i), p[3]) = 0
                => ret.leagues.rows[i][p[1]] = N(0)

C8_DifferentialsWheneverOperands ==
    ReturnedTable =>
        \A i \in DOMAIN ret.leagues.rows :
            /\ {"Performance Gls", "Expected xG"} \subseteq df.columns =>
                  ret.leagues.rows[i]["G-xG"]
                     = Sub(N(Sum(RowsOfRow(i), "Performance Gls")),
                           N(Sum(RowsOfRow(i), "Expected xG")))
            /\ {"Ast", "Expected xA"} \subseteq df.columns =>
                  ret.leagues.rows[i]["A-xA"]
                     = Sub(N(Sum(RowsOfRow(i), "Ast")), N(Sum(RowsOfRow(i), "Expected xA")))

\* the distribution families: the sub-metrics, their columns, the total column
\* ("" for the tackle zones, whose total is the sum of the three zones)
distribution_families == <<
    [names |-> <<"Def 3rd Tackles %", "Mid 3rd Tackles %", "Att 3rd Tackles %">>,
     cols |-> tackle_zones, total |-> ""],
    [names |-> <<"Def 3rd Touch %", "Mid 3rd Touch %", "Att 3rd Touch %",
                 "Att Pen Touch %", "Def Pen Touch %">>,
     cols |-> touch_zones, total |-> "Touches Touches"],
    [names |-> <<"In Corner %", "Out Corner %", "Str Corner %">>,
     cols |-> corner_types, total |-> "Pass Types CK"],
    [names |-> <<"Shot Blocks %", "Pass Blocks %">>,
     cols |-> <<"Blocks Sh", "Blocks Pass">>, total |-> "Blocks Blocks"],
    [names |-> <<"GCA PassLive %", "GCA PassDead %", "GCA TO %", "GCA Sh %",
                 "GCA Fld %", "GCA Def %">>,
     cols |-> gca_types, total |-> "GCA GCA"],
    [names |-> <<"SCA PassLive %", "SCA PassDead %", "SCA TO %", "SCA Sh %",
                 "SCA Fld %", "SCA Def %">>,
     cols |-> sca_types, total |-> "SCA SCA"]>>

RECURSIVE SumOfEntries(_, _)
SumOfEntries(rec, names) ==
    IF names = <<>> THEN N(0)
    ELSE Add(rec[names[Len(names)]], SumOfEntries(rec, SubSeq(names, 1, Len(names) - 1)))

RECURSIVE SumOfColumns(_, _)
SumOfColumns(L, cols) ==
    IF cols = <<>> THEN 0
    ELSE Sum(L, cols[Len(cols)]) + SumOfColumns(L, SubSeq(cols, 1, Len(cols) - 1))

\* every sub-metric of the family was derived for the league of record rec
FamilyDerived(rec, fam) == Range(fam.names) \subseteq DOMAIN rec

\* C9 as stated: in every league record that holds all sub-metrics of a
\* distribution family, the sub-metric percentages sum to 100
C9_SumsTo100AsStated ==
    \A i \in DOMAIN league_metrics : \A f \in DOMAIN distribution_families :
        FamilyDerived(league_metrics[i], distribution_families[f])
            => SumOfEntries(league_metrics[i], distribution_families[f].names) = N(100)

\* C9 amended: the tackle-zone percentages sum to 100; the percentages of every
\* other family sum to 100 * (sum of the sub-counts) / (the family's total column)
C9_SumsTo100 ==
    \A i \in DOMAIN league_metrics : \A f \in DOMAIN distribution_families :
        LET fam == distribution_families[f]
            rec == league_metrics[i]
            L == LeagueDf(df, rec["League"])
        IN  FamilyDerived(rec, fam) =>
                SumOfEntries(rec, fam.names)
                   = IF fam.total = "" THEN N(100)
                     ELSE Q(100 * SumOfColumns(L, fam.cols), Sum(L, fam.total))

\* a record whose tackle-zone percentages are three different shares
C9_Witness ==
    \E i \in DOMAIN league_metrics :
        /\ FamilyDerived(league_metrics[i], distribution_families[1])
        /\ league_metrics[i]["Def 3rd Tackles %"] # league_metrics[i]["Mid 3rd Tackles %"]
        /\ league_metrics[i]["Mid 3rd Tackles %"] # league_metrics[i]["Att 3rd Tackles %"]
        /\ SumOfEntries(league_metrics[i], distribution_families[1].names) = N(100)

\* C11: for an input that lacks an identity column the call returns no league
\* table and no player table right after the column check, and nothing has been
\* computed: no league list, no league record, no player table, no league table
C11_MissingIdentityFails ==
    ~df.none /\ ~(required_cols \subseteq df.columns) =>
        /\ pc \notin {"loop", "assemble", "defaults"}
        /\ leagues = <<>> /\ league_metrics = <<>>
        /\ player_df = None /\ leagues_df = None
        /\ pc # "start" =>
              outcome = "missing_cols" /\ ret.leagues.none /\ ret.players.none

\* the call has returned for a table of a qualifying league, with every metric
\* column, that lacks only the squad column
C11_Witness ==
    /\ Returned /\ ~df.none
    /\ AllCols \ df.columns = {"Squad"}
    /\ Len(df.rows) >= MinLeagueRows
    /\ outcome = "missing_cols" /\ ret.leagues.none /\ ret.players.none

\* C12: an input with the three identity columns but no position column, for
\* which at least one league record was collected, is returned as a league
\* table and a player table
C12_PositionIsOptional ==
    Returned /\ ~df.none /\ required_cols \subseteq df.columns
             /\ "Pos" \notin df.columns /\ league_metrics # <<>>
        => outcome = "ok" /\ ~ret.leagues.none /\ ~ret.players.none

\* C13: for an input with the identity columns and the position column, whatever
\* metric source columns it has, the call does not end in the exception handler
C13_AbsentSourcesNeverFail ==
    Returned /\ ~df.none /\ Range(player_cols) \subseteq df.columns
        => outcome # "exception"

\* the metrics process_football_data derives as a rate per 90, each with the
\* event columns whose league sums it adds up
per90_metrics == <<
    <<"Shots Per 90", <<"Standard Sh">>>>,
    <<"Non-Penalty Goals Per 90", <<"Performance G-PK">>>>,
    <<"GCA Per 90", <<"GCA GCA">>>>,
    <<"Carries into Box Per 90", <<"Carries CPA">>>>,
    <<"Passes into Box Per 90", <<"PPA">>>>,
    <<"Tackles Per 90", <<"Tackles Tkl">>>>,
    <<"Interceptions Per 90", <<"Int">>>>,
    <<"Tackles+Interceptions Per 90", <<"Tackles Tkl", "Int">>>>,
    <<"Blocks Per 90", <<"Blocks Blocks">>>>,
    <<"Clearances Per 90", <<"Clr">>>>,
    <<"Errors Per 90", <<"Err">>>>,
    <<"Recoveries Per 90", <<"Performance Recov">>>>,
    <<"Touches Per 90", <<"Touches Touches">>>>,
    <<"Progressive Carries Per 90", <<"Carries PrgC">>>>,
    <<"Carries into Final Third Per 90", <<"Carries 1/3">>>>,
    <<"Progressive Passes Received Per 90", <<"Receiving PrgR">>>>,
    <<"Take-Ons Per 90", <<"Take-Ons Att">>>>,
    <<"Successful Take-Ons Per 90", <<"Take-Ons Succ">>>>,
    <<"Progressive Passes Per 90", <<"PrgP">>>>,
    <<"Progressive Pass Distance Per 90", <<"Total PrgDist">>>>,
    <<"Key Passes Per 90", <<"KP">>>>,
    <<"xA Per 90", <<"Expected xA">>>>,
    <<"xAG Per 90", <<"xAG">>>>,
    <<"SCA Per 90", <<"SCA SCA">>>>,
    <<"G+A Per 90", <<"Performance Gls", "Ast">>>>,
    <<"G+A-PK Per 90", <<"Performance G-PK", "Ast">>>>,
    <<"xG+xA Per 90", <<"Expected xG", "Expected xA">>>>,
    <<"npxG+xA Per 90", <<"Expected npxG", "Expected xA">>>>>>

\* C14: every per-90 metric in a league record is the league's event sum divided
\* by the league's summed playing time, or by 1 when that sum is below 1
C14_Per90 ==
    \A i \in DOMAIN league_metrics : \A k \in DOMAIN per90_metrics :
        LET rec == league_metrics[i]
            L == LeagueDf(df, rec["League"])
            time == Sum(L, "Playing Time 90s")
        IN  per90_metrics[k][1] \in DOMAIN rec =>
                rec[per90_metrics[k][1]]
                   = Q(SumOfColumns(L, per90_metrics[k][2]), IF time >= 1 THEN time ELSE 1)

\* a league record whose league has no playing time and a positive shot count
C14_Witness ==
    \E i \in DOMAIN league_metrics :
        LET rec == league_metrics[i]
            L == LeagueDf(df, rec["League"])
        IN  /\ {"Shots Per 90", "G+A Per 90"} \subseteq DOMAIN rec
            /\ Sum(L, "Playing Time 90s") = 0
            /\ rec["Shots Per 90"] = N(Sum(L, "Standard Sh"))
            /\ Sum(L, "Standard Sh") > 0

\* the mean-of-player-ratios metrics: name, per-player percentage, attempts
mean_of_ratios == <<
    <<"Pass Completion %", "Total Cmp%", "Total Att">>,
    <<"Pressure Success %", "Pressure Succ%", "Pressure Press">>>>

\* the players of L whose attempts are not zero
WithAttempts(L, att) == {i \in DOMAIN L : L[i][att] # 0}

RECURSIVE SumOver(_, _, _)
\* sum of column c over the rows of L with an index in I
SumOver(L, I, c) ==
    IF I = {} THEN 0
    ELSE LET i == CHOOSE j \in I : TRUE IN L[i][c] + SumOver(L, I \ {i}, c)

\* C15: a mean-of-player-ratios metric in a league record is the arithmetic mean
\* of the per-player percentage over the players with nonzero attempts, and 0
\* when the league has no such player
C15_MeanOfPlayerRatios ==
    \A i \in DOMAIN league_metrics : \A k \in DOMAIN mean_of_ratios :
        LET rec == league_metrics[i]
            L == LeagueDf(df, rec["League"])
            m == mean_of_ratios[k]
            I == WithAttempts(L, m[3])
        IN  m[1] \in DOMAIN rec =>
                rec[m[1]] = IF I = {} THEN N(0)
                            ELSE Q(SumOver(L, I, m[2]), Cardinality(I))

\* a league record where some but not all players have pressures, so that the
\* mean over them is not the mean over all players, and where no player has a
\* pass attempt although the completion percentages are not all 0
C15_Witness ==
    \E i \in DOMAIN league_metrics :
        LET rec == league_metrics[i]
            L == LeagueDf(df, rec["League"])
        IN  /\ {"Pass Completion %", "Pressure Success %"} \subseteq DOMAIN rec
            /\ WithAttempts(L, "Pressure Press") \notin {{}, DOMAIN L}
            /\ rec["Pressure Success %"] # Q(Sum(L, "Pressure Succ%"), Len(L))
            /\ WithAttempts(L, "Total Att") = {}
            /\ Sum(L, "Total Cmp%") > 0
            /\ rec["Pass Completion %"] = N(0)

\* C16: in every row of a returned league table whose league has the three
\* tackle-zone columns and a nonzero tackle total, Pressing Intensity is
\* (3 * attacking + 2 * middle + defensive third tackles) / (their sum), a value
\* between 1 and 3
C16_PressingIntensity ==
    ReturnedTable /\ Range(tackle_zones) \subseteq df.columns =>
        \A i \in DOMAIN ret.leagues.rows :
            LET L == RowsOfRow(i)
                att == Sum(L, "Tackles Att 3rd")
                mid == Sum(L, "Tackles Mid 3rd")
                def == Sum(L, "Tackles Def 3rd")
                v == ret.leagues.rows[i]["Pressing Intensity"]
            IN  att + mid + def > 0 =>
                    /\ v = Q(3 * att + 2 * mid + 1 * def, att + mid + def)
                    /\ IsFinite(v) /\ ~Gt(N(1), v) /\ ~Gt(v, N(3))

\* a returned row whose league has more attacking-third than defensive-third
\* tackles, so that the index lies strictly between 2 and 3
C16_Witness ==
    /\ ReturnedTable /\ Range(tackle_zones) \subseteq df.columns
    /\ \E i \in DOMAIN ret.leagues.rows :
          LET L == RowsOfRow(i)
              v == ret.leagues.rows[i]["Pressing Intensity"]
          IN  /\ Sum(L, "Tackles Att 3rd") > Sum(L, "Tackles Def 3rd")
              /\ Sum(L, "Tackles Def 3rd") > 0 /\ Sum(L, "Tackles Mid 3rd") > 0
              /\ Gt(v, N(2)) /\ Gt(N(3), v)

\* C17: the returned player table has the identity columns and every metric
\* source column of the input, has no column the input lacks, and every cell is
\* the input's cell
C17_PlayerColumns ==
    ReturnedTable =>
        /\ required_cols \cup (SourceCols \cap df.columns) \subseteq ret.players.columns
        /\ ret.players.columns \subseteq df.columns
        /\ \A i \in DOMAIN ret.players.rows : \A c \in ret.players.columns :
              ret.players.rows[i][c] = df.rows[i][c]

\* the playing time below which get_player_aggregates drops a player
MinPlayingTime == 5

\* C18: when the input has the playing-time column, no row of the returned player
\* table has a playing time below the minimum
C18_PlayingTimeFilter ==
    ReturnedTable /\ "Playing Time 90s" \in df.columns =>
        \A i \in DOMAIN ret.players.rows :
            ret.players.rows[i]["Playing Time 90s"] >= MinPlayingTime

\* load_and_process_data has returned
Loaded == pc \in {"loaded", "app"}
\* the fetch gave no table, or process_football_data gave no league table
NeedsFallback == df.none \/ ret.leagues.none

\* C19: whatever the outcome of the fetch and of the processing, the loader
\* returns three values and the caller's unpacking into three names succeeds
C19_ThreeValues ==
    /\ Loaded => Len(result) = 3
    /\ pc = "app" => app.state = "ok"

\* C20: after a failed fetch or a processing without league table the caller
\* holds the synthetic tables and the flag True; the flag is False only with the
\* league table derived from the fetched data; the caller's league table is
\* never missing
C20_FallbackIsSynthetic ==
    pc = "app" =>
        /\ app.state = "ok"
        /\ ~app.leagues_df.none
        /\ NeedsFallback =>
              /\ app.leagues_df = SampleLeagues /\ app.players_df = SamplePlayers
              /\ app.using_sample_data = TRUE
        /\ app.using_sample_data = FALSE =>
              ~df.none /\ outcome = "ok" /\ app.leagues_df = ret.leagues

\* the loader took the fallback path: its value holds the pair of load_sample_data
FellBack == Loaded /\ result[Len(result)] = TRUE

\* C21: the synthetic league table handed out on the fallback path has every
\* metric of the catalog as a column and no metric column outside the catalog
C21_SyntheticSchemaIsCatalog ==
    FellBack => MetricColumns(result[1][1]) = Catalog

\* C22: no two rows of a returned league table have the same league name, and
\* every row's league name is the league of at least 10 rows of the input
C22_LeagueNamesAreKey ==
    ReturnedTable =>
        /\ \A i, j \in DOMAIN ret.leagues.rows :
              ret.leagues.rows[i]["League"] = ret.leagues.rows[j]["League"] => i = j
        /\ \A i \in DOMAIN ret.leagues.rows :
              RowsOf(ret.leagues.rows[i]["League"]) >= MinLeagueRows

\* a returned table with a row for each of two leagues of the input
C22_Witness ==
    /\ ReturnedTable
    /\ Len(ret.leagues.rows) = 2
    /\ ret.leagues.rows[1]["League"] # ret.leagues.rows[2]["League"]
    /\ Len(df.rows) >= 2 * MinLeagueRows

\* the league table process_football_data builds from the rows of league l
\* alone, the column set of the input kept (for a league with a record)
TableAlone(l) ==
    FillDefaults(DataFrame(<<LeagueData(df.columns, l, LeagueDf(df, l))>>))

\* C23: the metric values of a league in the returned league table are those
\* the same input gives without the rows of the other leagues
C23_PartitionsIndependent ==
    ReturnedTable =>
        \A i \in DOMAIN ret.leagues.rows :
            LET alone == TableAlone(ret.leagues.rows[i]["League"])
            IN  \A m \in alone.columns :
                    ret.leagues.rows[i][m] = alone.rows[1][m]

\* C24: no metric is listed twice in the catalog, and a metric whose source
\* columns are all absent has in every row of the returned league table the
\* default of its listing in the catalog
C24_OneDefaultPerMetric ==
    ReturnedTable =>
        /\ \A j, k \in DOMAIN default_items :
              default_items[j][1] = default_items[k][1] => j = k
        /\ \A k \in DOMAIN default_items :
              MetricSources[default_items[k][1]] \cap df.columns = {} =>
                  \A i \in DOMAIN ret.leagues.rows :
                      ret.leagues.rows[i][default_items[k][1]] = default_items[k][2]

\* C25: the defaulting step adds exactly the catalog metrics that are not yet
\* columns of the assembled league table, each with its default in every row,
\* and leaves every cell of the columns already there as it was, missing cells
\* included
C25_DefaultsOnlyAdd ==
    [][pc = "defaults" =>
          /\ leagues_df'.columns = leagues_df.columns \cup Catalog
          /\ DOMAIN leagues_df'.rows = DOMAIN leagues_df.rows
          /\ \A i \in DOMAIN leagues_df.rows :
                /\ \A c \in leagues_df.columns :
                      leagues_df'.rows[i][c] = leagues_df.rows[i][c]
                /\ \A c \in Catalog \ leagues_df.columns :
                      leagues_df'.rows[i][c] = default_values[c]
          /\ ret'.leagues = leagues_df']_vars

\* a returned league table with a column added by the defaulting step, a
\* computed cell that differs from the metric's default, and a cell left missing
\* in a column another league computed
C25_Witness ==
    /\ ReturnedTable
    /\ Catalog \ DOMAIN league_metrics[1] # {}
    /\ \E i \in DOMAIN ret.leagues.rows : \E c \in Catalog :
          /\ c \in DOMAIN league_metrics[i]
          /\ ret.leagues.rows[i][c] = league_metrics[i][c]
          /\ ret.leagues.rows[i][c] # default_values[c]
    /\ \E i \in DOMAIN ret.leagues.rows : \E c \in Catalog :
          IsNaN(ret.leagues.rows[i][c])
    /\ \E c \in Catalog :
          /\ \A i \in DOMAIN league_metrics : c \notin DOMAIN league_metrics[i]
          /\ \A i \in DOMAIN ret.leagues.rows : ret.leagues.rows[i][c] = default_values[c]

\* C26: when the corner-count column is present, Corners Per Match of a league
\* is the sum of its corner counts divided by n * (n - 1) / 2, n the number of
\* distinct squads among the league's rows, and it is 5 when that estimated
\* match count is not positive
C26_CornersPerMatch ==
    ~df.none /\ "Pass Types CK" \in df.columns =>
        \A i \in DOMAIN league_metrics :
            LET rec == league_metrics[i]
                L == LeagueDf(df, rec["League"])
                n == Cardinality({L[j]["Squad"] : j \in DOMAIN L})
                corners == SumOver(L, DOMAIN L, "Pass Types CK")
            IN  /\ "Corners Per Match" \in DOMAIN rec
                /\ rec["Corners Per Match"] =
                      IF n * (n - 1) > 0
                      THEN Div(N(corners), Q(n * (n - 1), 2))
                      ELSE N(5)

\* a league of several squads with corners, whose estimate is not the constant
C26_Witness ==
    /\ ~df.none
    /\ "Pass Types CK" \in df.columns
    /\ \E i \in DOMAIN league_metrics :
          LET L == LeagueDf(df, league_metrics[i]["League"])
          IN  /\ Cardinality({L[j]["Squad"] : j \in DOMAIN L}) >= 2
              /\ SumOver(L, DOMAIN L, "Pass Types CK") > 0
              /\ league_metrics[i]["Corners Per Match"] # N(5)

\* a league of a single squad, with corners of its own, that gets the constant
C26_SingleSquad ==
    /\ ~df.none
    /\ "Pass Types CK" \in df.columns
    /\ \E i \in DOMAIN league_metrics :
          LET L == LeagueDf(df, league_metrics[i]["League"])
          IN  /\ Cardinality({L[j]["Squad"] : j \in DOMAIN L}) = 1
              /\ SumOver(L, DOMAIN L, "Pass Types CK") > 0
              /\ league_metrics[i]["Corners Per Match"] = N(5)

\* ------------------------------------- data_processor.get_player_aggregates

\* the identification columns get_player_aggregates looks for, and how many of
\* them it asks for
aggregate_required_cols == <<"Player", "Squad", "Competition", "Pos", "Playing Time 90s">>
MinIdentification == 3

\* the player metrics it extracts, and how many of them it asks for
player_metrics == <<
    "Performance Gls", "Performance Ast", "Standard Sh", "Standard SoT", "Expected xG",
    "Touches Touches", "Carries Carries", "Carries PrgC", "Take-Ons Succ",
    "Total Att", "Total Cmp", "Total Cmp%", "PrgP", "KP",
    "Pass Types CK", "Corner Kicks In">>
MinPlayerMetrics == 5

\* pd.DataFrame(): no columns, no rows
EmptyFrame == Table({}, <<>>)

\* the table read from the file: one league of n players; the i-th has played
\* (3 * i) % (MinPlayingTime + 3) nineties, so that some players are below the
\* playing-time threshold, some above it and one exactly on it
AggregateRow(cols, i) ==
    [c \in cols |->
        CASE c = "Player" -> i
          [] c = "Competition" -> "League A"
          [] c = "Squad" -> <<"League A", (i % MaxSquads) + 1>>
          [] c = "Pos" -> "MF"
          [] c = "Playing Time 90s" -> (3 * i) % (MinPlayingTime + 3)
          [] OTHER -> i % (MaxCell + 1)]

AggregateColumnSets ==
    {I \cup Range(SubSeq(player_metrics, 1, k)) :
        I \in SUBSET Range(aggregate_required_cols),
        k \in {MinPlayerMetrics - 1, MinPlayerMetrics, Len(player_metrics)}}

AggregateInputs ==
    {Table(cols, [i \in 1..n |-> AggregateRow(cols, i)]) :
        cols \in AggregateColumnSets, n \in 0..MaxRows}

\* get_player_aggregates on the table read from the file; the generated tables
\* have no missing cells, so fillna(0) leaves every cell as it is
get_player_aggregates(d) ==
    LET available == SelectSeq(aggregate_required_cols, LAMBDA c : c \in d.columns)
        available_metrics == SelectSeq(player_metrics, LAMBDA c : c \in d.columns)
    IN  IF Len(available) < MinIdentification THEN EmptyFrame
        ELSE IF Len(available_metrics) < MinPlayerMetrics THEN EmptyFrame
        ELSE LET player_table == Project(d, Range(available \o available_metrics))
             IN  IF "Playing Time 90s" \in player_table.columns
                 THEN Table(player_table.columns,
                            SelectSeq(player_table.rows,
                                      LAMBDA r : r["Playing Time 90s"] >= MinPlayingTime))
                 ELSE player_table

InitAggregates ==
    /\ df \in AggregateInputs
    /\ pc = "aggregates"
    /\ leagues = <<>>
    /\ idx = 1
    /\ league_metrics = <<>>
    /\ player_df = None
    /\ leagues_df = None
    /\ ret = [leagues |-> None, players |-> None]
    /\ outcome = "running"
    /\ result = <<>>
    /\ app = [state |-> "waiting"]

\* one call of get_player_aggregates; player_df holds the table it returns
GetPlayerAggregates ==
    /\ pc = "aggregates"
    /\ player_df' = get_player_aggregates(df)
    /\ pc' = "aggregated"
    /\ UNCHANGED <<df, leagues, idx, league_metrics, leagues_df, ret, outcome, result, app>>

NextAggregates == GetPlayerAggregates

SpecAggregates == InitAggregates /\ [][NextAggregates]_vars

\* C27: whenever the player, the squad or the competition column is absent from
\* the input, get_player_aggregates returns a table without rows
C27_IdentityColumnsRequired ==
    pc = "aggregated" /\ ~({"Player", "Squad", "Competition"} \subseteq df.columns) =>
        player_df.rows = <<>>

\* C28: in a call on a table with the identity columns, a league of at least
\* MinLeagueRows rows has a row in the league table if and only if at least
\* MinEntries metrics were derived for it, and when no league has a row the call
\* returns (None, None)
C28_RowIffEnoughMetrics ==
    Returned /\ ~df.none /\ required_cols \subseteq df.columns =>
        /\ \A l \in InputLeagues :
              RowsOf(l) >= MinLeagueRows =>
                  (HasLeagueRow(ret.leagues, l)
                      <=> ~RaisesKeyError(df.columns) /\ NumDerived(l) >= MinEntries)
        /\ (\A l \in InputLeagues : ~HasLeagueRow(ret.leagues, l))
              => ret.leagues.none /\ ret.players.none

\* the entries each of the twelve sections of the league loop writes, in the
\* order the sections run
Sections(cols, L) ==
    <<AttackMetrics(cols, L), GoalCreationMetrics(cols, L), ThreatMetrics(cols, L),
      DefensiveMetrics(cols, L), TouchMetrics(cols, L), RetentionMetrics(cols, L),
      TakeOnMetrics(cols, L), PassingMetrics(cols, L), CornerMetrics(cols, L),
      ImpactMetrics(cols, L), EfficiencyMetrics(cols, L), CompositeMetrics(cols, L)>>

\* the metric names that two different sections write for the rows L
WrittenTwice(cols, L) ==
    LET S == Sections(cols, L)
    IN  UNION {IF a < b THEN DOMAIN S[a] \cap DOMAIN S[b] ELSE {} : a \in DOMAIN S, b \in DOMAIN S}

\* C29: whenever two sections of the league loop both write a metric for a
\* league, they write the same value, and that value is the one in the league's
\* record
C29_SingleDefinition ==
    ~df.none =>
        \A i \in DOMAIN league_metrics :
            LET rec == league_metrics[i]
                S == Sections(df.columns, LeagueDf(df, rec["League"]))
            IN  \A a, b \in DOMAIN S :
                    a < b => \A m \in DOMAIN S[a] \cap DOMAIN S[b] :
                                 S[a][m] = S[b][m] /\ rec[m] = S[a][m]

\* a league for which exactly Carries into Box Per 90, Progressive Carry % and
\* Key Pass % are written twice, each with a value that is neither zero nor the
\* metric's default
C29_Witness ==
    /\ ~df.none
    /\ \E i \in DOMAIN league_metrics :
          LET rec == league_metrics[i]
              twice == WrittenTwice(df.columns, LeagueDf(df, rec["League"]))
          IN  /\ twice = {"Carries into Box Per 90", "Progressive Carry %", "Key Pass %"}
              /\ \A m \in twice : rec[m] # N(0) /\ rec[m] # default_values[m]

\* the input has a league of at least MinLeagueRows rows
HasQualifyingLeague == \E l \in InputLeagues : RowsOf(l) >= MinLeagueRows

\* C30: what a call of process_football_data returns is (None, None) for a
\* missing input, for missing identity columns and for an exception raised
\* while processing (the position column absent from the player projection, an
\* attempts column absent under its percentage column); a returned league table
\* comes with the player table, so the league table is None if and only if the
\* player table is None
C30_TablesTogether ==
    outcome # "running" =>
        /\ outcome \in {"none_input", "missing_cols", "exception", "no_metrics", "ok"}
        /\ ret.leagues.none <=> ret.players.none
        /\ df.none => ret.leagues.none /\ ret.players.none
        /\ ~df.none /\ ~(required_cols \subseteq df.columns)
              => ret.leagues.none /\ ret.players.none
        /\ ~df.none /\ required_cols \subseteq df.columns
              /\ (\/ "Pos" \notin df.columns
                  \/ HasQualifyingLeague /\ RaisesKeyError(df.columns))
              => outcome = "exception" /\ ret.leagues.none /\ ret.players.none
        /\ outcome = "ok" => ~ret.leagues.none /\ ret.players = player_df /\ ~player_df.none

\* a call in which a league record had been collected when the exception was
\* raised, and which returned (None, None)
C30_Witness ==
    /\ Returned /\ outcome = "exception"
    /\ league_metrics # <<>>
    /\ ret.leagues.none /\ ret.players.none

\* a call that returned a league table together with a player table
C30_BothTables ==
    /\ Returned /\ outcome = "ok"
    /\ ~ret.leagues.none /\ ~ret.players.none
    /\ ret.leagues.rows # <<>> /\ ret.players.rows # <<>>
====
